---------------------------- MODULE Spec2Model ----------------------------
(***************************************************************************)
(* Smart-Greenhouse: the actuator decision engine (logic.py) and the       *)
(* environment model (simulator.py) of Smart_Green_House_Code.             *)
(*                                                                         *)
(* Units.  Temperature, humidity, soil moisture and rain are integers in   *)
(* hundredths of the source's unit (2.0 C is 200), light is in hundredths  *)
(* of a lux.  Timestamps are whole minutes since midnight of day 0 (the    *)
(* GUI's clock always has second = 0); durations the source gives in       *)
(* seconds are kept in seconds and compared with 60 * minutes.             *)
(***************************************************************************)
EXTENDS Integers, Sequences, FiniteSets, TLC

VARIABLES
  actions,       \* GreenhouseLogic.actions: the stored flags (the dict compute returns)
  on_since,      \* GreenhouseLogic._on_since: key -> None or <<timestamp>>
  reasons,       \* the reasons list returned by the last compute call
  values,        \* the state vector: temp, humidity, light, rain, soil
  targets,       \* the targets argument of the last compute call
  rain_forecast, \* the rain_forecast argument of the last call
  faults,        \* EnvironmentModel.faults, the faults argument of compute
  now,           \* the timestamp of the last call
  started,       \* the timestamp at construction
  calls,         \* "none" before any call, else the operation that ran last
  prev_actions,  \* history: the stored flags before the last compute call
  prev_on_since, \* history: _on_since before the last compute call
  changed_at,    \* history: strict key -> None or <<time of the flag's last transition>>
  group,         \* the sensor group this run varies
  background,    \* the class the other sensors are held in
  program,       \* which of the repository's two programs runs: "strict" or "latch"
  latch_until,   \* Smart_Green_House GreenhouseLogic._latch_until: key -> None or <<t>>
  active_anomaly, \* EnvironmentModel.active_anomaly
  anomaly_until, \* EnvironmentModel.anomaly_until: None or <<timestamp>>
  notes,         \* the notes dict returned by the last apply_tick: a set of <<key, text>>
  city_code,     \* the city selected for this run
  season_code,   \* the season selected for this run
  ticks,         \* the number of environment steps taken
  anomaly_code,  \* the anomaly code selected for this run's set_anomaly calls
  auto_cleared,  \* history: the last apply_tick ran clear_anomaly itself
  twin_actions,  \* a second GreenhouseLogic given the same calls with no faults: its flags
  twin_on_since, \* the second GreenhouseLogic's _on_since
  app            \* SmartGreenhouseApp: its Tk variables, what the last tick published,
                 \* the position of its two callbacks, their locals and the readings table

vars == <<actions, on_since, reasons, values, targets, rain_forecast, faults,
          now, started, calls, prev_actions, prev_on_since, changed_at,
          group, background, program, latch_until,
          active_anomaly, anomaly_until, notes, city_code, season_code, ticks,
          anomaly_code, auto_cleared, twin_actions, twin_on_since, app>>

\* the environment model's own state, which the controllers never touch
env_vars == <<active_anomaly, anomaly_until, notes, city_code, season_code, ticks,
          anomaly_code, auto_cleared>>

None == << >>

Max(a, b) == IF a >= b THEN a ELSE b
Min(a, b) == IF a <= b THEN a ELSE b

\* simulator.clamp
clamp(x, a, b) == Max(a, Min(b, x))

---------------------------------------------------------------------------
\* config.py: control bands, hysteresis, minimum ON times

TEMP_BAND_C == 200
HUM_BAND_PCT == 600
SOIL_BAND_PCT == 250
LIGHT_BAND_LUX == 6000
TEMP_HYST_C == 70
HUM_HYST_PCT == 300
MIN_ON_VENT_SEC == 900
MIN_ON_WIN_SEC == 900
MIN_ON_WATER_SEC == 720
MIN_ON_MIST_SEC == 600
MIN_ON_LIGHT_SEC == 600
ALLOW_LIGHT_AT_NIGHT == TRUE

\* config.PLANTS, the default plant TOMATO
PlantTomato ==
  [temp_day |-> 2400, temp_night |-> 1800, hum |-> 6000,
   light_min |-> 25000, soil_min |-> 4500]

\* config.DEFAULT_VALUES
DEFAULT_VALUES ==
  [temp |-> 2200, humidity |-> 5500, light |-> 35000, rain |-> 0, soil |-> 4500]

Keys == {"Heating", "Ventilation", "Windows", "Watering", "Misting",
         "Lighting", "RainProtection", "Alarm"}

Strict == {"Ventilation", "Windows", "Watering", "Misting", "Lighting"}

NoFaults == [fan_fault |-> FALSE, pump_fault |-> FALSE, mister_fault |-> FALSE]

\* the minimum ON time of each strict actuator
MinOn(k) ==
  CASE k = "Ventilation" -> MIN_ON_VENT_SEC
    [] k = "Windows" -> MIN_ON_WIN_SEC
    [] k = "Watering" -> MIN_ON_WATER_SEC
    [] k = "Misting" -> MIN_ON_MIST_SEC
    [] k = "Lighting" -> MIN_ON_LIGHT_SEC

---------------------------------------------------------------------------
\* logic.py

blank_actions == [k \in Keys |-> FALSE]

hour(t) == (t \div 60) % 24

is_night(t) == hour(t) >= 20 \/ hour(t) < 6

\* min_on_ok with the elapsed-time test dropped
min_on_ok_unchecked(ons, key, t, min_sec) == TRUE

\* GreenhouseLogic._min_on_ok: no start recorded, or ON for at least min_sec
min_on_ok(ons, key, t, min_sec) ==
  IF ons[key] = None THEN TRUE ELSE (t - ons[key][1]) * 60 >= min_sec

\* set_act stamping the timer on every ON call, not only on OFF -> ON
set_act_restamp(ons, prev, key, value, t) ==
  IF value THEN [ons EXCEPT ![key] = <<t>>]
  ELSE IF prev THEN [ons EXCEPT ![key] = None]
  ELSE ons

\* GreenhouseLogic._set_act, its effect on _on_since (prev is self.actions[key])
set_act(ons, prev, key, value, t) ==
  IF value /\ ~prev THEN [ons EXCEPT ![key] = <<t>>]
  ELSE IF ~value /\ prev THEN [ons EXCEPT ![key] = None]
  ELSE ons

\* gui._targets_for_now
targets_for_now(plant, t) ==
  [temp_target |-> IF is_night(t) THEN plant.temp_night ELSE plant.temp_day,
   hum_target  |-> plant.hum,
   light_min   |-> plant.light_min,
   soil_min    |-> plant.soil_min]

\* heating_rule with no release
heating_rule_sticky(heat_prev, temp, t_tgt) ==
  IF temp < t_tgt - TEMP_BAND_C THEN TRUE ELSE heat_prev

\* heating_rule releasing only strictly above the hysteresis threshold
heating_rule_late(heat_prev, temp, t_tgt) ==
  IF temp < t_tgt - TEMP_BAND_C THEN TRUE
  ELSE IF temp > t_tgt + TEMP_HYST_C THEN FALSE
  ELSE heat_prev

\* Heating (not strict)
heating_rule(heat_prev, temp, t_tgt) ==
  IF temp < t_tgt - TEMP_BAND_C THEN TRUE
  ELSE IF temp >= t_tgt + TEMP_HYST_C THEN FALSE
  ELSE heat_prev

\* strict_rule with no release
strict_rule_no_release(on_prev, trigger, release, ok) ==
  IF trigger THEN TRUE ELSE on_prev

\* strict_rule with no hysteresis zone: OFF as soon as the trigger is gone and
\* the minimum ON time has passed
strict_rule_no_zone(on_prev, trigger, release, ok) ==
  IF trigger THEN TRUE
  ELSE IF ok THEN FALSE
  ELSE on_prev

\* a strict actuator driven by one value: ON on trigger, OFF on release once
\* the minimum ON time has passed, else unchanged
strict_rule(on_prev, trigger, release, ok) ==
  IF trigger THEN TRUE
  ELSE IF release /\ ok THEN FALSE
  ELSE on_prev

\* windows_rule closing without waiting for the minimum ON time
windows_rule_eager(win_prev, rain, want_open, release, ok) ==
  IF rain THEN FALSE ELSE strict_rule(win_prev, want_open, release, TRUE)

\* windows_rule with the rain forecast waiting for the minimum ON time
windows_rule_waits(win_prev, rain, want_open, release, ok) ==
  IF rain THEN (IF win_prev /\ ok THEN FALSE ELSE win_prev)
  ELSE strict_rule(win_prev, want_open, release, ok)

\* Windows: closed at once on a rain forecast, else a strict actuator
windows_rule(win_prev, rain, want_open, release, ok) ==
  IF rain THEN FALSE ELSE strict_rule(win_prev, want_open, release, ok)

\* no night policy at all
night_close_off(night, want_vent, ok) == FALSE

\* night_close closing at night whether or not ventilation is wanted
night_close_always(night, want_vent, ok) == night /\ ok

\* the night policy: at night, with no need to ventilate, an actuator whose
\* minimum ON time has elapsed is closed
night_close(night, want_vent, ok) == night /\ ~want_vent /\ ok

\* RainProtection staying ON once set
rain_protection_latched(prev, rain) == prev \/ rain

\* RainProtection: assigned True in the rain branch and False in the other
rain_protection(prev, rain) == rain

\* the fault hints appended to reasons
fault_reasons(f) ==
  (IF f.fan_fault THEN <<"FAULT: fan_fault">> ELSE << >>) \o
  (IF f.pump_fault THEN <<"FAULT: pump_fault">> ELSE << >>) \o
  (IF f.mister_fault THEN <<"FAULT: mister_fault">> ELSE << >>)

\* alarm_rule counting only the reasons that are not fault hints
alarm_rule_real(rs) ==
  \E i \in 1..Len(rs) :
    rs[i] \notin {"FAULT: fan_fault", "FAULT: pump_fault", "FAULT: mister_fault"}

\* Alarm from the reasons list
alarm_rule(rs) == rs # << >>

\* GreenhouseLogic.compute: the returned flags, the new _on_since and the reasons
compute(acts, ons, v, tg, rain, f, t) ==
  LET temp == v.temp
      hum == v.humidity
      light == v.light
      soil == v.soil
      t_tgt == tg.temp_target
      h_tgt == tg.hum_target
      l_min == tg.light_min
      s_min == tg.soil_min
      night == is_night(t)
      \* Heating
      heat_on == heating_rule(acts.Heating, temp, t_tgt)
      r_heat == IF temp < t_tgt - TEMP_BAND_C THEN <<"Temp low">> ELSE << >>
      \* Ventilation
      t_high == temp > t_tgt + TEMP_BAND_C
      h_high == hum > h_tgt + HUM_BAND_PCT
      want_vent == t_high \/ h_high
      ok_temp == temp <= t_tgt + TEMP_BAND_C - TEMP_HYST_C
      ok_hum == hum <= h_tgt + HUM_BAND_PCT - HUM_HYST_PCT
      vent_on == strict_rule(acts.Ventilation, want_vent, ok_temp /\ ok_hum,
                             min_on_ok(ons, "Ventilation", t, MIN_ON_VENT_SEC))
      r_vent == (IF t_high THEN <<"Temp high">> ELSE << >>) \o
                (IF h_high THEN <<"Humidity high">> ELSE << >>)
      ons1 == set_act(ons, acts.Ventilation, "Ventilation", vent_on, t)
      \* Windows
      win_on == windows_rule(acts.Windows, rain, want_vent, ok_temp /\ ok_hum,
                             min_on_ok(ons1, "Windows", t, MIN_ON_WIN_SEC))
      r_rain == IF rain THEN <<"Rain forecast -> close windows">> ELSE << >>
      ons2 == set_act(ons1, acts.Windows, "Windows", win_on, t)
      \* night policy
      close_vent == night_close(night, want_vent,
                                min_on_ok(ons2, "Ventilation", t, MIN_ON_VENT_SEC))
      vent_fin == IF close_vent THEN FALSE ELSE vent_on
      ons3 == IF close_vent
              THEN set_act(ons2, acts.Ventilation, "Ventilation", FALSE, t)
              ELSE ons2
      close_win == night_close(night, want_vent,
                               min_on_ok(ons3, "Windows", t, MIN_ON_WIN_SEC))
      win_fin == IF close_win THEN FALSE ELSE win_on
      ons4 == IF close_win
              THEN set_act(ons3, acts.Windows, "Windows", FALSE, t)
              ELSE ons3
      \* Watering
      water_on == strict_rule(acts.Watering, soil < s_min,
                              soil >= s_min + SOIL_BAND_PCT,
                              min_on_ok(ons4, "Watering", t, MIN_ON_WATER_SEC))
      r_water == IF soil < s_min THEN <<"Soil low">> ELSE << >>
      ons5 == set_act(ons4, acts.Watering, "Watering", water_on, t)
      \* Misting
      low_thr == h_tgt - HUM_BAND_PCT
      mist_on == strict_rule(acts.Misting, hum < low_thr,
                             hum >= low_thr + HUM_HYST_PCT,
                             min_on_ok(ons5, "Misting", t, MIN_ON_MIST_SEC))
      r_mist == IF hum < low_thr THEN <<"Humidity low">> ELSE << >>
      ons6 == set_act(ons5, acts.Misting, "Misting", mist_on, t)
      \* Lighting
      allow_now == ~night \/ ALLOW_LIGHT_AT_NIGHT
      light_on == strict_rule(acts.Lighting, allow_now /\ light < l_min,
                              light >= l_min + LIGHT_BAND_LUX,
                              min_on_ok(ons6, "Lighting", t, MIN_ON_LIGHT_SEC))
      r_light == IF allow_now /\ light < l_min THEN <<"Light low">> ELSE << >>
      ons7 == set_act(ons6, acts.Lighting, "Lighting", light_on, t)
      rs == r_heat \o r_vent \o r_rain \o r_water \o r_mist \o r_light
              \o fault_reasons(f)
  IN [act |-> [Heating |-> heat_on, Ventilation |-> vent_fin,
               Windows |-> win_fin, Watering |-> water_on,
               Misting |-> mist_on, Lighting |-> light_on,
               RainProtection |-> rain_protection(acts.RainProtection, rain),
               Alarm |-> alarm_rule(rs)],
      on_since |-> ons7,
      reasons |-> rs]


---------------------------------------------------------------------------
\* Smart_Green_House (the latch-based program): config.py and logic.py

TEMP_LOW == 1500
TEMP_HIGH == 3000
HUMIDITY_LOW == 4000
HUMIDITY_HIGH == 8000
LIGHT_MIN == 25000
SOIL_MIN == 3000

Latched == {"Lighting", "Heating", "Misting", "Watering"}

\* a latch that never holds
latched_never(lu, key, t) == FALSE

\* GreenhouseLogic._latched
latched(lu, key, t) == lu[key] # None /\ t < lu[key][1]

\* GreenhouseLogic._latch: the latch only ever moves later
latch(lu, key, t, minutes) ==
  IF lu[key] = None \/ t + minutes > lu[key][1]
  THEN [lu EXCEPT ![key] = <<t + minutes>>]
  ELSE lu

\* an alarm raised whenever heating is triggered
latch_alarm_on_trigger(temp, humidity, soil) ==
  temp < TEMP_LOW \/ temp > TEMP_HIGH + 300

\* the alarm condition of apply_rules
latch_alarm(temp, humidity, soil) ==
  \/ temp < TEMP_LOW - 300
  \/ temp > TEMP_HIGH + 300
  \/ humidity < 3000
  \/ humidity > 9000
  \/ soil < SOIL_MIN - 1000

\* GreenhouseLogic.apply_rules: the returned flags, the new latches, the reasons
apply_rules(lu, temp, humidity, light, rain, soil, t) ==
  LET lu1 == IF light < LIGHT_MIN THEN latch(lu, "Lighting", t, 30) ELSE lu
      lighting == light < LIGHT_MIN \/ latched(lu1, "Lighting", t)
      lu2 == IF temp < TEMP_LOW THEN latch(lu1, "Heating", t, 120) ELSE lu1
      heating == temp < TEMP_LOW
                   \/ (latched(lu2, "Heating", t) /\ temp < TEMP_HIGH - 100)
      vent == temp > TEMP_HIGH \/ humidity > HUMIDITY_HIGH
      lu3 == IF humidity < HUMIDITY_LOW THEN latch(lu2, "Misting", t, 20) ELSE lu2
      misting == humidity < HUMIDITY_LOW \/ latched(lu3, "Misting", t)
      lu4 == IF soil < SOIL_MIN THEN latch(lu3, "Watering", t, 30) ELSE lu3
      watering == soil < SOIL_MIN \/ latched(lu4, "Watering", t)
      win1 == IF rain THEN FALSE ELSE vent
      windows == IF is_night(t) /\ ~vent THEN FALSE ELSE win1
      rs == (IF light < LIGHT_MIN THEN <<"Low light">> ELSE << >>) \o
            (IF temp < TEMP_LOW THEN <<"Low temp">> ELSE << >>) \o
            (IF temp > TEMP_HIGH THEN <<"High temp">> ELSE << >>) \o
            (IF humidity < HUMIDITY_LOW THEN <<"Low humidity">> ELSE << >>) \o
            (IF humidity > HUMIDITY_HIGH THEN <<"High humidity">> ELSE << >>) \o
            (IF soil < SOIL_MIN THEN <<"Low soil">> ELSE << >>) \o
            (IF rain THEN <<"Rain forecast">> ELSE << >>)
  IN [act |-> [Heating |-> heating, Ventilation |-> vent, Windows |-> windows,
               Watering |-> watering, Misting |-> misting, Lighting |-> lighting,
               RainProtection |-> rain,
               Alarm |-> latch_alarm(temp, humidity, soil)],
      latch_until |-> lu4,
      reasons |-> rs]

---------------------------------------------------------------------------
\* The controller driven call by call.  Each call passes sensor values placed
\* relative to the targets of that call's timestamp (offsets in hundredths).
\* A run varies the sensors of one group and holds the others in one class.

Horizon == 25

StartTimes == {1190, 350}
Deltas == {5, 10}
Groups == {"climate", "humidity", "soil", "light"}
Backgrounds == {"quiet", "triggered"}

TempOffs == {-210, -200, 70, 200, 210}
HumHighOffs == {-300, 600, 610}
HumLowOffs == {-610, -600, -300}
SoilOffs == {-10, 0, 250}
LightOffs == {-100, 0, 6000}

\* values a tenth of a unit (one lux) either side of each ON-trigger boundary
OscTempOffs == {190, 210}
OscHumHighOffs == {590, 610}
OscHumLowOffs == {-610, -590}
OscSoilOffs == {-10, 10}
OscLightOffs == {-100, 100}

FaultSets == [fan_fault : BOOLEAN, pump_fault : BOOLEAN, mister_fault : BOOLEAN]

Offs(dt, dh, ds, dl, rain, f) ==
  [dt |-> dt, dh |-> dh, ds |-> ds, dl |-> dl, rain |-> rain, f |-> f]

\* the argument tuples tried on each call of a run of group g over background b
CtlInputs(g, b) ==
  LET ds0 == IF b = "quiet" THEN 0 ELSE -10
      dl0 == IF b = "quiet" THEN 0 ELSE -100
      dh0 == IF b = "quiet" THEN -300 ELSE -610
      dt0 == IF b = "quiet" THEN 70 ELSE -210
  IN CASE g = "climate" ->
            {Offs(dt, dh, ds0, dl0, rain, NoFaults) :
               dt \in TempOffs, dh \in HumHighOffs, rain \in BOOLEAN}
       [] g = "humidity" ->
            {Offs(dt0, dh, ds0, dl0, FALSE, f) : dh \in HumLowOffs, f \in FaultSets}
       [] g = "soil" ->
            {Offs(dt0, dh0, ds, dl0, FALSE, f) : ds \in SoilOffs, f \in FaultSets}
       [] g = "light" ->
            {Offs(dt0, dh0, ds0, dl, FALSE, f) : dl \in LightOffs, f \in FaultSets}
       [] g = "osc_climate" ->
            {Offs(dt, dh, ds0, dl0, FALSE, NoFaults) :
               dt \in OscTempOffs, dh \in OscHumHighOffs}
       [] g = "osc_ground" ->
            {Offs(dt0, dh, ds, dl, FALSE, NoFaults) :
               dh \in OscHumLowOffs, ds \in OscSoilOffs, dl \in OscLightOffs}

ValuesAt(tg, in) ==
  [temp |-> tg.temp_target + in.dt, humidity |-> tg.hum_target + in.dh,
   light |-> tg.light_min + in.dl, rain |-> 0, soil |-> tg.soil_min + in.ds]

\* history: the time of each flag's last transition
Transitions(old, new, t, ch) ==
  [k \in Strict |-> IF new[k] # old[k] THEN <<t>> ELSE ch[k]]

\* the tick numbers that stand for "no tick"
NoTick == 0
Unread == -1

\* the initial value of the minutes_per_tick field
MINUTES_PER_TICK == 15

\* compute keeping the dictionary it returns as its stored flags
stored_ref_shared(ret, fresh) == ret

\* the object compute stores as self.actions: dict(act), a new dictionary, while
\* act itself, the dictionary ret, is returned
stored_ref(ret, fresh) == fresh

\* SmartGreenhouseApp.__init__ up to the start of its two loops
AppConstruct ==
  [phase |-> "start_ui",
   pc |-> "idle",
   ui_pc |-> "idle",
   auto_mode |-> TRUE,
   rain_forecast |-> FALSE,
   sim_time_enabled |-> TRUE,
   minutes_per_tick |-> MINUTES_PER_TICK,
   manual_override |-> FALSE,
   enable_random_faults |-> FALSE,
   \* history: the fault flags the random injection of _tick_loop has set
   injected |-> {},
   \* the minutes of real time gone by since the constructor read the wall clock
   real |-> 0,
   \* the identities of the dictionary held in logic.actions and of the one the
   \* last compute returned (0: none yet), and the number of dictionaries made
   ref |-> [stored |-> 1, returned |-> 0, made |-> 1],
   latest_actions |-> blank_actions,
   latest_targets |-> [temp_target |-> 0, hum_target |-> 0, light_min |-> 0,
                       soil_min |-> 0],
   latest_reasons |-> << >>,
   latest_notes |-> {},
   \* history: the tick that assigned each _latest_ field
   stamp |-> [actions |-> NoTick, targets |-> NoTick, reasons |-> NoTick,
              notes |-> NoTick],
   \* history: the stamps the running (or last) UI refresh found on what it read
   seen |-> [targets |-> Unread, actions |-> Unread, notes |-> Unread],
   \* the locals of _tick_loop
   loc |-> [auto |-> TRUE, actions |-> blank_actions, reasons |-> << >>,
            notes |-> {}],
   \* history: the arguments of the last compute and apply_tick calls
   computed |-> [tick |-> NoTick, now |-> 0, rain |-> FALSE, flags |-> blank_actions],
   stepped |-> [tick |-> NoTick, now |-> 0, rain |-> FALSE, flags |-> blank_actions],
   \* the insert_reading calls made, in order: timestamp and values
   db |-> << >>]

\* EnvironmentModel.__init__ and the GUI's default city and season
EnvConstruct ==
  /\ active_anomaly = "NORMAL"
  /\ anomaly_until = None
  /\ notes = {}
  /\ city_code = "Ruse"
  /\ season_code = "WINTER"
  /\ ticks = 0
  /\ anomaly_code = "NORMAL"
  /\ auto_cleared = FALSE

InitCtlWith(gs, bs) ==
  /\ EnvConstruct
  /\ actions = blank_actions
  /\ on_since = [k \in Keys |-> None]
  /\ reasons = << >>
  /\ values = DEFAULT_VALUES
  /\ started \in StartTimes
  /\ now = started
  /\ group \in gs
  /\ background \in bs
  /\ targets = targets_for_now(PlantTomato, now)
  /\ rain_forecast = FALSE
  /\ faults = NoFaults
  /\ calls = "none"
  /\ prev_actions = blank_actions
  /\ prev_on_since = [k \in Keys |-> None]
  /\ twin_actions = blank_actions
  /\ twin_on_since = [k \in Keys |-> None]
  /\ app = AppConstruct
  /\ changed_at = [k \in Strict |-> None]
  /\ program = "strict"
  /\ latch_until = [k \in Latched |-> None]

\* a compute that timestamps with the time of the previous call, not its input
ComputeCallHiddenClock(v, tg, rain, f, t) ==
  LET r == compute(actions, on_since, v, tg, rain, f, now)
  IN /\ actions' = r.act
     /\ on_since' = r.on_since
     /\ reasons' = r.reasons
     /\ values' = v
     /\ targets' = tg
     /\ rain_forecast' = rain
     /\ faults' = f
     /\ now' = t
     /\ calls' = "compute"
     /\ prev_actions' = actions
     /\ prev_on_since' = on_since
     /\ changed_at' = Transitions(actions, r.act, t, changed_at)
     /\ twin_actions' = compute(twin_actions, twin_on_since, v, tg, rain, NoFaults, t).act
     /\ twin_on_since' =
          compute(twin_actions, twin_on_since, v, tg, rain, NoFaults, t).on_since
     /\ UNCHANGED <<started, group, background, program, latch_until, app>>
     /\ UNCHANGED env_vars

\* a compute that also switches Watering OFF on a pump fault
ComputeCallPumpTrips(v, tg, rain, f, t) ==
  LET r0 == compute(actions, on_since, v, tg, rain, f, t)
      r == [r0 EXCEPT !.act.Watering = r0.act.Watering /\ ~f.pump_fault]
  IN /\ actions' = r.act
     /\ on_since' = r.on_since
     /\ reasons' = r.reasons
     /\ values' = v
     /\ targets' = tg
     /\ rain_forecast' = rain
     /\ faults' = f
     /\ now' = t
     /\ calls' = "compute"
     /\ prev_actions' = actions
     /\ prev_on_since' = on_since
     /\ changed_at' = Transitions(actions, r.act, t, changed_at)
     /\ twin_actions' = compute(twin_actions, twin_on_since, v, tg, rain, NoFaults, t).act
     /\ twin_on_since' =
          compute(twin_actions, twin_on_since, v, tg, rain, NoFaults, t).on_since
     /\ UNCHANGED <<started, group, background, program, latch_until, app>>
     /\ UNCHANGED env_vars

\* one call of GreenhouseLogic.compute(values, targets, rain_forecast, faults, now)
ComputeCall(v, tg, rain, f, t) ==
  LET r == compute(actions, on_since, v, tg, rain, f, t)
  IN /\ actions' = r.act
     /\ on_since' = r.on_since
     /\ reasons' = r.reasons
     /\ values' = v
     /\ targets' = tg
     /\ rain_forecast' = rain
     /\ faults' = f
     /\ now' = t
     /\ calls' = "compute"
     /\ prev_actions' = actions
     /\ prev_on_since' = on_since
     /\ changed_at' = Transitions(actions, r.act, t, changed_at)
     /\ twin_actions' = compute(twin_actions, twin_on_since, v, tg, rain, NoFaults, t).act
     /\ twin_on_since' =
          compute(twin_actions, twin_on_since, v, tg, rain, NoFaults, t).on_since
     /\ UNCHANGED <<started, group, background, program, latch_until, app>>
     /\ UNCHANGED env_vars

CtlStep ==
  \E d \in Deltas, in \in CtlInputs(group, background) :
    /\ program = "strict"
    /\ now + d <= started + Horizon
    /\ LET t == now + d
           tg == targets_for_now(PlantTomato, t)
       IN ComputeCall(ValuesAt(tg, in), tg, in.rain, in.f, t)

InitCtl == InitCtlWith(Groups, Backgrounds)

NextCtl == CtlStep

SpecCtl == InitCtl /\ [][NextCtl]_vars

\* every driving value oscillating around its ON-trigger boundary, no rain forecast
InitOsc == InitCtlWith({"osc_climate", "osc_ground"}, {"quiet"})

SpecOsc == InitOsc /\ [][NextCtl]_vars

---------------------------------------------------------------------------
\* The strict controller driven until every release condition holds for good:
\* triggers may occur while a minimum ON time still fits before the horizon,
\* afterwards every call finds every trigger false and every release true.

ReleaseDeltas == {3, 10}

\* the argument tuples of a call at time t
ReleaseInputs(t) ==
  IF t <= started + Horizon - MIN_ON_VENT_SEC \div 60
    THEN {Offs(c[1], c[2], c[3], c[4], FALSE, NoFaults) :
            c \in {<<210, -300, -10, -100>>, <<70, -610, -10, 6000>>,
                   <<70, -300, 250, 6000>>}}
    ELSE {Offs(70, -300, 250, 6000, rain, NoFaults) : rain \in BOOLEAN}

InitRelease == InitCtlWith({"release"}, {"quiet"})

ReleaseStep ==
  \E d \in ReleaseDeltas :
    /\ group = "release"
    /\ now < started + Horizon
    /\ \E in \in ReleaseInputs(now + d) :
         LET t == now + d
             tg == targets_for_now(PlantTomato, t)
         IN ComputeCall(ValuesAt(tg, in), tg, in.rain, in.f, t)

\* the timestamp of the next call: what a ReleaseStep does to the clock
ReleaseClock ==
  /\ group = "release"
  /\ now < started + Horizon
  /\ now' \in {now + d : d \in ReleaseDeltas}

\* the tick loop keeps calling compute: a call is made whenever one is possible
SpecRelease == InitRelease /\ [][ReleaseStep]_vars /\ WF_now(ReleaseClock)

---------------------------------------------------------------------------
\* The latch-based controller driven call by call with absolute sensor values.

LatchHorizon == 130

LatchDeltas == {10, 60}
LatchGroups == {"climate", "humidity", "soil", "light"}

LatchTemps == {1190, 1490, 1500, 2890, 2900, 3010, 3310}
LatchHums == {2990, 3990, 4000, 8010, 9010}
LatchSoils == {1990, 2990, 3000}
LatchLights == {24900, 25000}

Vals(temp, humidity, light, soil) ==
  [temp |-> temp, humidity |-> humidity, light |-> light, rain |-> 0, soil |-> soil]

\* the argument tuples tried on each call of a run of group g
LatchInputs(g) ==
  CASE g = "climate" ->
         {[v |-> Vals(tp, 6000, 35000, 4500), rain |-> r] :
            tp \in LatchTemps, r \in BOOLEAN}
    [] g = "humidity" ->
         {[v |-> Vals(2200, h, 35000, 4500), rain |-> r] :
            h \in LatchHums, r \in BOOLEAN}
    [] g = "soil" ->
         {[v |-> Vals(2200, 6000, 35000, sl), rain |-> FALSE] : sl \in LatchSoils}
    [] g = "light" ->
         {[v |-> Vals(2200, 6000, l, 4500), rain |-> FALSE] : l \in LatchLights}

InitLatch ==
  /\ EnvConstruct
  /\ actions = blank_actions
  /\ on_since = [k \in Keys |-> None]
  /\ reasons = << >>
  /\ values = DEFAULT_VALUES
  /\ started \in StartTimes
  /\ now = started
  /\ group \in LatchGroups
  /\ background = "quiet"
  /\ targets = targets_for_now(PlantTomato, now)
  /\ rain_forecast = FALSE
  /\ faults = NoFaults
  /\ calls = "none"
  /\ prev_actions = blank_actions
  /\ prev_on_since = [k \in Keys |-> None]
  /\ twin_actions = blank_actions
  /\ twin_on_since = [k \in Keys |-> None]
  /\ app = AppConstruct
  /\ changed_at = [k \in Strict |-> None]
  /\ program = "latch"
  /\ latch_until = [k \in Latched |-> None]

\* one call of apply_rules(temp, humidity, light, rain_forecast, soil_moisture, now)
ApplyRulesCall(v, rain, t) ==
  LET r == apply_rules(latch_until, v.temp, v.humidity, v.light, rain, v.soil, t)
  IN /\ actions' = r.act
     /\ latch_until' = r.latch_until
     /\ reasons' = r.reasons
     /\ values' = v
     /\ rain_forecast' = rain
     /\ now' = t
     /\ calls' = "apply_rules"
     /\ prev_actions' = actions
     /\ UNCHANGED <<on_since, targets, faults, started, prev_on_since, changed_at,
                    group, background, program, twin_actions, twin_on_since, app>>
     /\ UNCHANGED env_vars

LatchStep ==
  \E d \in LatchDeltas, in \in LatchInputs(group) :
    /\ program = "latch"
    /\ now + d <= started + LatchHorizon
    /\ ApplyRulesCall(in.v, in.rain, now + d)

NextLatch == LatchStep

SpecLatch == InitLatch /\ [][NextLatch]_vars

\* either program, for what the two controllers have in common
InitBoth == InitCtl \/ InitLatch

NextBoth == CtlStep \/ LatchStep

SpecBoth == InitBoth /\ [][NextBoth]_vars

---------------------------------------------------------------------------
\* simulator.py: the environment model.  Rates per hour and blend factors are
\* in units of 1/10000; a tick length is in hundredths of a minute.

NATURAL_LIGHT_DAY_RANGE == <<50000, 65000>>
NATURAL_LIGHT_NIGHT_RANGE == <<12000, 20000>>
LAMP_LIGHT_TARGET_RANGE == <<45000, 52000>>
RAIN_MM_WHEN_FORECAST == 350
MIN_NIGHT_TEMP_C == 800
HEATING_RATE_C_PER_HOUR == 400
WATER_SOIL_PCT_PER_HOUR == 600
MIST_HUM_PCT_PER_HOUR == 700
VENT_LEAK_MULT == 55

\* config.ANOMALIES without NORMAL
AnomalyCodes == {"DRY_AIR", "HUMID_AIR", "LOW_LIGHT", "HEAT_WAVE", "COLD_SNAP",
                 "DRY_SOIL", "RAIN_FORECAST", "FAN_FAULT", "PUMP_FAULT",
                 "MISTER_FAULT"}

\* SEASON_SUN giving unknown codes the summer day
SEASON_SUN_default_summer(season) ==
  CASE season = "WINTER" -> <<450, 1020>>
    [] season = "SPRING" -> <<390, 1170>>
    [] season = "SUMMER" -> <<345, 1245>>
    [] season = "FALL" -> <<420, 1110>>
    [] OTHER -> <<345, 1245>>

\* sunrise and sunset of a season in minutes of the day; unknown codes get WINTER's
SEASON_SUN(season) ==
  CASE season = "WINTER" -> <<450, 1020>>
    [] season = "SPRING" -> <<390, 1170>>
    [] season = "SUMMER" -> <<345, 1245>>
    [] season = "FALL" -> <<420, 1110>>
    [] OTHER -> <<450, 1020>>

\* the outside baseline <<temperature, humidity>>; unknown codes get <<10.0, 65.0>>
CITY_SEASON_OUTSIDE(city, season) ==
  CASE city = "Ruse" /\ season = "WINTER" -> <<150, 7500>>
    [] city = "Ruse" /\ season = "SPRING" -> <<1500, 6500>>
    [] city = "Ruse" /\ season = "SUMMER" -> <<3300, 5000>>
    [] city = "Ruse" /\ season = "FALL" -> <<1600, 6500>>
    [] city = "Varna" /\ season = "WINTER" -> <<550, 7800>>
    [] city = "Varna" /\ season = "SPRING" -> <<1600, 7000>>
    [] city = "Varna" /\ season = "SUMMER" -> <<3000, 5500>>
    [] city = "Varna" /\ season = "FALL" -> <<1800, 7000>>
    [] city = "Burgas" /\ season = "WINTER" -> <<550, 8000>>
    [] city = "Burgas" /\ season = "SPRING" -> <<1600, 7000>>
    [] city = "Burgas" /\ season = "SUMMER" -> <<3100, 5500>>
    [] city = "Burgas" /\ season = "FALL" -> <<1800, 7000>>
    [] city = "Sofia" /\ season = "WINTER" -> <<50, 7000>>
    [] city = "Sofia" /\ season = "SPRING" -> <<1400, 6000>>
    [] city = "Sofia" /\ season = "SUMMER" -> <<3200, 4500>>
    [] city = "Sofia" /\ season = "FALL" -> <<1500, 6000>>
    [] city = "Plovdiv" /\ season = "WINTER" -> <<300, 7000>>
    [] city = "Plovdiv" /\ season = "SPRING" -> <<1600, 6000>>
    [] city = "Plovdiv" /\ season = "SUMMER" -> <<3500, 4500>>
    [] city = "Plovdiv" /\ season = "FALL" -> <<1700, 6000>>
    [] OTHER -> <<1000, 6500>>

\* simulator.lerp with k in 1/10000
lerp(a, b, k) == a + ((b - a) * k) \div 10000

\* math.sin of 0..90 whole degrees, in 1/10000
SinTab ==
  << 0, 175, 349, 523, 698, 872, 1045, 1219, 1392, 1564,
     1736, 1908, 2079, 2250, 2419, 2588, 2756, 2924, 3090, 3256,
     3420, 3584, 3746, 3907, 4067, 4226, 4384, 4540, 4695, 4848,
     5000, 5150, 5299, 5446, 5592, 5736, 5878, 6018, 6157, 6293,
     6428, 6561, 6691, 6820, 6947, 7071, 7193, 7314, 7431, 7547,
     7660, 7771, 7880, 7986, 8090, 8192, 8290, 8387, 8480, 8572,
     8660, 8746, 8829, 8910, 8988, 9063, 9135, 9205, 9272, 9336,
     9397, 9455, 9511, 9563, 9613, 9659, 9703, 9744, 9781, 9816,
     9848, 9877, 9903, 9925, 9945, 9962, 9976, 9986, 9994, 9998,
     10000 >>

\* math.sin of q quarter-degrees, 0 <= q <= 360, interpolated between whole degrees
SinQuadrant(q) ==
  LET d == q \div 4
      r == q % 4
  IN IF r = 0 THEN SinTab[d + 1]
     ELSE SinTab[d + 1] + ((SinTab[d + 2] - SinTab[d + 1]) * r) \div 4

\* math.sin of q quarter-degrees, any integer q, in 1/10000
sin(q) ==
  LET a == q % 1440
  IN CASE a <= 360 -> SinQuadrant(a)
       [] a <= 720 -> SinQuadrant(720 - a)
       [] a <= 1080 -> 0 - SinQuadrant(a - 720)
       [] OTHER -> 0 - SinQuadrant(1440 - a)

\* simulator.hour_of_day, in minutes of the day
hour_of_day(t) == t % 1440

\* simulator.natural_light_lux
natural_light_lux(season, t) ==
  LET sunrise == SEASON_SUN(season)[1]
      sunset == SEASON_SUN(season)[2]
      h == hour_of_day(t)
      day_len == Max(6, sunset - sunrise)
      y == sin((720 * (h - sunrise)) \div day_len)
      peak == lerp(NATURAL_LIGHT_DAY_RANGE[1], NATURAL_LIGHT_DAY_RANGE[2], 7500)
  IN IF h < sunrise \/ h > sunset
       THEN lerp(NATURAL_LIGHT_NIGHT_RANGE[1], NATURAL_LIGHT_NIGHT_RANGE[2], 5000)
       ELSE lerp(26000, peak, y)

\* EnvironmentModel.outside: <<out_t, out_h>>
outside(city, season, t) ==
  LET base == CITY_SEASON_OUTSIDE(city, season)
      swing == sin(hour_of_day(t) - 360)
  IN << base[1] + (320 * swing) \div 10000,
        clamp(base[2] - (700 * swing) \div 10000, 2500, 9500) >>

\* EnvironmentModel._anomaly_active
anomaly_active(a, until, t) == a # "NORMAL" /\ until # None /\ t <= until[1]

anomaly_expired_early(a, until, t) == a # "NORMAL" /\ (until = None \/ t >= until[1])

\* the auto-clear test at the head of apply_tick
anomaly_expired(a, until, t) == a # "NORMAL" /\ (until = None \/ t > until[1])

\* min(cap, rate per hour * dt_hours), dt in hundredths of a minute
frac(rate, dt, cap) == clamp((rate * dt) \div 6000, 0, cap)

\* x moved toward target by the blend factor k
toward(x, target, k) == x + ((target - x) * k) \div 10000

\* the text apply_tick notes for an anomaly whose modifier it applied
anomaly_note(a) ==
  CASE a = "DRY_AIR" -> "Dry air event"
    [] a = "HUMID_AIR" -> "Humid air event"
    [] a = "LOW_LIGHT" -> "Low light (clouds)"
    [] a = "HEAT_WAVE" -> "Heat wave"
    [] a = "COLD_SNAP" -> "Cold snap"
    [] a = "DRY_SOIL" -> "Dry soil event"
    [] a = "RAIN_FORECAST" -> "Storm forecast"
    [] a = "FAN_FAULT" -> "Fan fault injected"
    [] a = "PUMP_FAULT" -> "Pump fault injected"
    [] a = "MISTER_FAULT" -> "Mister fault injected"
    [] OTHER -> ""

\* a night window of the environment that opens an hour late
sim_is_night_late(t) == hour(t) >= 21 \/ hour(t) < 6

\* apply_tick's own night test: is_night = now.hour >= 20 or now.hour < 6
sim_is_night(t) == hour(t) >= 20 \/ hour(t) < 6

\* the night floor of apply_tick, applied to the temperature after leakage
night_floor(temp, t) ==
  IF sim_is_night(t) THEN Max(temp, MIN_NIGHT_TEMP_C) ELSE temp

final_clamp_open(v) == v

\* the clamps at the end of apply_tick
final_clamp(v) ==
  [v EXCEPT !.temp = clamp(v.temp, -2000, 6000),
            !.humidity = clamp(v.humidity, 500, 9800),
            !.light = clamp(v.light, 0, 200000)]

\* a fault that stops the actuator's effect
fault_limited_zero(x) == 0

\* a faulty actuator delivering half of its effect
fault_limited_half(x) == (x * 50) \div 100

\* a faulty actuator delivers a quarter of its effect (vent_eff *= 0.25, inc *= 0.25)
fault_limited(x) == (x * 25) \div 100

\* The body of EnvironmentModel.apply_tick once the outside baseline out and the
\* natural light nat0 have been looked up, in a model whose anomaly is a0 until
\* until0 and whose fault flags are f0: the returned values and notes and the
\* model's new fields
apply_tick_from(out, nat0, a0, until0, f0, v, acts, t, m, rain) ==
  LET dt == Max(60, 100 * m)
      expired == anomaly_expired(a0, until0, t)
      a == IF expired THEN "NORMAL" ELSE a0
      until == IF expired THEN None ELSE until0
      an == IF anomaly_active(a, until, t) THEN a ELSE "NORMAL"
      hum1 == CASE an = "DRY_AIR" -> toward(v.humidity, 2800, frac(3000, dt, 6000))
                [] an = "HUMID_AIR" -> toward(v.humidity, 8500, frac(2200, dt, 5000))
                [] OTHER -> v.humidity
      nat_lux == IF an = "LOW_LIGHT" THEN (nat0 * 45) \div 100 ELSE nat0
      out_t == CASE an = "HEAT_WAVE" -> out[1] + 800
                 [] an = "COLD_SNAP" -> out[1] - 1000
                 [] OTHER -> out[1]
      out_h == out[2]
      soil1 == IF an = "DRY_SOIL" THEN toward(v.soil, 2200, frac(2200, dt, 5000))
               ELSE v.soil
      rain_mm == IF rain \/ an = "RAIN_FORECAST" THEN RAIN_MM_WHEN_FORECAST ELSE 0
      f == [fan_fault |-> f0.fan_fault \/ an = "FAN_FAULT",
            pump_fault |-> f0.pump_fault \/ an = "PUMP_FAULT",
            mister_fault |-> f0.mister_fault \/ an = "MISTER_FAULT"]
      temp2 == toward(v.temp, out_t, frac(600, dt, 1200))
      hum2 == toward(hum1, out_h, frac(400, dt, 1000))
      temp3 == night_floor(temp2, t)
      lux1 == toward(v.light, nat_lux, frac(6500, dt, 8500))
      soil2 == clamp(soil1 - ((soil1 - 80) * ((150 * dt) \div 6000)) \div 10000, 0, 10000)
      temp4 == IF acts.Heating
                 THEN temp3 + clamp((HEATING_RATE_C_PER_HOUR * dt) \div 6000, 0, 600)
                 ELSE temp3
      venting == acts.Ventilation \/ acts.Windows
      vent_eff0 == IF acts.Windows THEN 5500 ELSE 4000
      fan_limited == venting /\ f.fan_fault /\ acts.Ventilation
      vent_eff == IF fan_limited THEN fault_limited(vent_eff0) ELSE vent_eff0
      k == frac((vent_eff * VENT_LEAK_MULT) \div 100, dt, 7500)
      temp5 == IF venting THEN toward(temp4, out_t, k) ELSE temp4
      hum3 == IF venting THEN toward(hum2, out_h, clamp((75 * k) \div 100, 0, 7500))
              ELSE hum2
      water0 == (WATER_SOIL_PCT_PER_HOUR * dt) \div 6000
      water_inc == IF f.pump_fault THEN fault_limited(water0) ELSE water0
      pump_limited == acts.Watering /\ f.pump_fault
      soil3 == IF acts.Watering THEN clamp(soil2 + water_inc, 0, 10000) ELSE soil2
      hum4 == IF acts.Watering THEN clamp(hum3 + (80 * dt) \div 6000, 500, 9800)
              ELSE hum3
      mist0 == (MIST_HUM_PCT_PER_HOUR * dt) \div 6000
      mist_inc == IF f.mister_fault THEN fault_limited(mist0) ELSE mist0
      mister_limited == acts.Misting /\ f.mister_fault
      hum5 == IF acts.Misting THEN clamp(hum4 + mist_inc, 500, 9800) ELSE hum4
      temp6 == IF acts.Misting THEN temp5 - (25 * dt) \div 6000 ELSE temp5
      lamp_target == lerp(LAMP_LIGHT_TARGET_RANGE[1], LAMP_LIGHT_TARGET_RANGE[2], 6000)
      lux2 == IF acts.Lighting THEN toward(lux1, lamp_target, frac(14000, dt, 7000))
              ELSE lux1
      ns == (IF an # "NORMAL" THEN {<<"anomaly", anomaly_note(an)>>} ELSE {})
            \cup (IF acts.Heating THEN {<<"Heating", "Heating ON">>} ELSE {})
            \cup (IF fan_limited
                    THEN {<<"Ventilation", "Fan fault reduces effect">>} ELSE {})
            \cup (IF pump_limited
                    THEN {<<"Watering", "Pump fault limits flow">>} ELSE {})
            \cup (IF mister_limited
                    THEN {<<"Misting", "Mister fault limits spray">>} ELSE {})
  IN [values |-> final_clamp([temp |-> temp6, humidity |-> hum5, light |-> lux2,
                              rain |-> rain_mm, soil |-> soil3]),
      notes |-> ns, faults |-> f, active_anomaly |-> a, anomaly_until |-> until]

\* EnvironmentModel.apply_tick: the outside baseline and the natural light are
\* looked up first, then the step is computed from them
apply_tick(a0, until0, f0, v, acts, city, season, t, m, rain) ==
  apply_tick_from(outside(city, season, t), natural_light_lux(season, t),
                  a0, until0, f0, v, acts, t, m, rain)

---------------------------------------------------------------------------
\* The environment driven step by step: every run fixes a scenario (city, season,
\* starting clock and starting state vector), the actuator flags its steps may
\* receive, and the anomaly code its set_anomaly calls inject.

MaxTicks == 3
DURATION_HOURS == 3

EnvScenarios == {"frost", "floor", "heat", "fallback", "no_city", "no_season"}
FlagSets == {"all", "heating", "vent", "cooling"}
SideAnomalies == {"HEAT_WAVE", "COLD_SNAP"}

\* the scenario a run fixes
Scenario(g) ==
  CASE g = "frost" ->
         [city |-> "Ruse", season |-> "WINTER", start |-> 60, lens |-> {60, 120},
          values |-> [temp |-> -1500, humidity |-> 500, light |-> 0,
                      rain |-> 0, soil |-> 0]]
    [] g = "floor" ->
         [city |-> "Sofia", season |-> "WINTER", start |-> 1260, lens |-> {15, 60},
          values |-> [temp |-> 800, humidity |-> 5500, light |-> 35000,
                      rain |-> 0, soil |-> 4500]]
    [] g = "heat" ->
         [city |-> "Plovdiv", season |-> "SUMMER", start |-> 780, lens |-> {15, 120},
          values |-> [temp |-> 6000, humidity |-> 9800, light |-> 200000,
                      rain |-> 350, soil |-> 10000]]
    [] g = "fallback" ->
         [city |-> "Atlantis", season |-> "MONSOON", start |-> 1140, lens |-> {60, 120},
          values |-> DEFAULT_VALUES]
    [] g = "no_city" ->
         [city |-> "Atlantis", season |-> "SUMMER", start |-> 1140, lens |-> {60},
          values |-> DEFAULT_VALUES]
    [] g = "no_season" ->
         [city |-> "Ruse", season |-> "MONSOON", start |-> 1140, lens |-> {60},
          values |-> DEFAULT_VALUES]
    [] OTHER ->
         [city |-> "Ruse", season |-> "WINTER", start |-> 600, lens |-> {1, 60, 120},
          values |-> DEFAULT_VALUES]

\* the flags a run's steps receive when they are not all OFF
Flags(b) ==
  CASE b = "all" -> [k \in Keys |-> TRUE]
    [] b = "heating" -> [blank_actions EXCEPT !.Heating = TRUE]
    [] b = "vent" -> [blank_actions EXCEPT !.Ventilation = TRUE, !.Watering = TRUE]
    [] OTHER -> [blank_actions EXCEPT !.Windows = TRUE, !.Misting = TRUE]

InitEnv ==
  /\ \/ /\ group \in EnvScenarios
        /\ background \in FlagSets
        /\ anomaly_code \in SideAnomalies
     \/ /\ group = "anomaly"
        /\ background = "all"
        /\ anomaly_code \in AnomalyCodes
  /\ program = "env"
  /\ city_code = Scenario(group).city
  /\ season_code = Scenario(group).season
  /\ started = Scenario(group).start
  /\ now = started
  /\ values = Scenario(group).values
  /\ active_anomaly = "NORMAL"
  /\ anomaly_until = None
  /\ faults = NoFaults
  /\ notes = {}
  /\ ticks = 0
  /\ auto_cleared = FALSE
  /\ actions = blank_actions
  /\ on_since = [k \in Keys |-> None]
  /\ reasons = << >>
  /\ targets = targets_for_now(PlantTomato, now)
  /\ rain_forecast = FALSE
  /\ calls = "none"
  /\ prev_actions = blank_actions
  /\ prev_on_since = [k \in Keys |-> None]
  /\ twin_actions = blank_actions
  /\ twin_on_since = [k \in Keys |-> None]
  /\ app = AppConstruct
  /\ changed_at = [k \in Strict |-> None]
  /\ latch_until = [k \in Latched |-> None]

ctl_vars == <<on_since, reasons, targets, started, prev_actions, prev_on_since,
              changed_at, group, background, program, latch_until,
              city_code, season_code, anomaly_code, twin_actions, twin_on_since,
              app>>

\* the codes a run's set_anomaly calls choose from: the run's own code and, in
\* the "floor" runs, either side anomaly, so that one anomaly can replace another
SetCodes(g) == IF g = "floor" THEN SideAnomalies ELSE {anomaly_code}

\* a set_anomaly that keeps the expiry of the anomaly it replaces
SetAnomalyKeepsExpiry ==
  \E code \in SetCodes(group) :
    /\ program = "env"
    /\ code # "NORMAL"
    /\ active_anomaly' = code
    /\ anomaly_until' = IF anomaly_until = None
                          THEN <<now + 60 * DURATION_HOURS>> ELSE anomaly_until
    /\ calls' = "set_anomaly"
    /\ auto_cleared' = FALSE
    /\ UNCHANGED <<actions, values, rain_forecast, faults, now, notes, ticks>>
    /\ UNCHANGED ctl_vars

\* EnvironmentModel.set_anomaly(code, now, 3.0), as the GUI calls it
SetAnomaly ==
  \E code \in SetCodes(group) :
    /\ program = "env"
    /\ code # "NORMAL"
    /\ active_anomaly' = code
    /\ anomaly_until' = <<now + 60 * DURATION_HOURS>>
    /\ calls' = "set_anomaly"
    /\ auto_cleared' = FALSE
    /\ UNCHANGED <<actions, values, rain_forecast, faults, now, notes, ticks>>
    /\ UNCHANGED ctl_vars

\* a clear_anomaly that leaves the expiry behind
ClearAnomalyKeepsExpiry ==
  /\ program = "env"
  /\ active_anomaly' = "NORMAL"
  /\ anomaly_until' = anomaly_until
  /\ calls' = "clear_anomaly"
  /\ auto_cleared' = FALSE
  /\ UNCHANGED <<actions, values, rain_forecast, faults, now, notes, ticks>>
  /\ UNCHANGED ctl_vars

\* EnvironmentModel.clear_anomaly()
ClearAnomaly ==
  /\ program = "env"
  /\ active_anomaly' = "NORMAL"
  /\ anomaly_until' = None
  /\ calls' = "clear_anomaly"
  /\ auto_cleared' = FALSE
  /\ UNCHANGED <<actions, values, rain_forecast, faults, now, notes, ticks>>
  /\ UNCHANGED ctl_vars

\* one tick: the clock advances by minutes_per_tick and apply_tick runs at the new time
ApplyTickCall(acts, m, rain) ==
  LET t == now + m
      r == apply_tick(active_anomaly, anomaly_until, faults, values, acts,
                      city_code, season_code, t, m, rain)
  IN /\ values' = r.values
     /\ notes' = r.notes
     /\ faults' = r.faults
     /\ active_anomaly' = r.active_anomaly
     /\ anomaly_until' = r.anomaly_until
     /\ actions' = acts
     /\ rain_forecast' = rain
     /\ now' = t
     /\ ticks' = ticks + 1
     /\ calls' = "apply_tick"
     /\ auto_cleared' = anomaly_expired(active_anomaly, anomaly_until, t)
     /\ UNCHANGED ctl_vars

\* the flags one step of a run may receive: the anomaly runs keep every actuator ON
StepFlags(g, b) ==
  IF g = "anomaly" THEN {Flags(b)} ELSE {blank_actions, Flags(b)}

\* the rain_forecast values tried with the flags acts
StepRain(acts) == IF acts = blank_actions THEN {FALSE} ELSE BOOLEAN

EnvStep ==
  \E m \in Scenario(group).lens, acts \in StepFlags(group, background) :
   \E rain \in StepRain(acts) :
    /\ program = "env"
    /\ ticks < MaxTicks
    /\ ApplyTickCall(acts, m, rain)

NextEnv == EnvStep \/ SetAnomaly \/ ClearAnomaly

SpecEnv == InitEnv /\ [][NextEnv]_vars

---------------------------------------------------------------------------
\* physics.py: GreenhousePhysics.step.  The per-minute rates it imports from config
\* (HEAT_RATE_C_PER_MIN, ...) are defined by no config module of the repository,
\* so every step draws them from PhysicsRates.

PhysicsRates ==
  { [heat |-> 7, vent_cool |-> 5, water_soil |-> 10, mist_hum |-> 12,
     vent_hum |-> 8, lamp_lux |-> 500],
    [heat |-> 500, vent_cool |-> 400, water_soil |-> 900, mist_hum |-> 900,
     vent_hum |-> 700, lamp_lux |-> 90000] }

\* physics.Ambient values
Ambients ==
  { [temp |-> -3000, humidity |-> 0, light_day |-> 0, light_night |-> 0,
     is_day |-> FALSE],
    [temp |-> 7000, humidity |-> 10000, light_day |-> 400000, light_night |-> 100,
     is_day |-> TRUE] }

\* the random.uniform draws of one step, as a fraction -1, 0 or 1 of their extreme
Noises == {-1, 1}

\* the starting state vectors of the physics runs, in and out of range
PhysicsStart(g) ==
  CASE g = "flood" -> [temp |-> 7000, humidity |-> 12000, light |-> 300000,
                       rain |-> 2500, soil |-> 12000]
    [] OTHER -> [temp |-> -2500, humidity |-> -100, light |-> 0,
                 rain |-> -50, soil |-> 0]

\* GreenhousePhysics.step(state, actions, ambient, dt_min), dt_min in minutes
step(v, acts, ambient, dt_min, rate, noise) ==
  LET amb_light == IF ambient.is_day THEN ambient.light_day ELSE ambient.light_night
      temp1 == v.temp + ((ambient.temp - v.temp) * dt_min) \div 100
      hum1 == v.humidity + ((ambient.humidity - v.humidity) * dt_min) \div 100
      light1 == v.light + ((amb_light - v.light) * 3 * dt_min) \div 100
      soil1 == v.soil - 2 * dt_min
      temp2 == IF acts.Heating THEN temp1 + rate.heat * dt_min ELSE temp1
      venting == acts.Ventilation \/ acts.Windows
      temp3 == IF venting THEN temp2 - rate.vent_cool * dt_min ELSE temp2
      hum2 == IF venting THEN hum1 - rate.vent_hum * dt_min ELSE hum1
      soil2 == IF acts.Watering THEN soil1 + rate.water_soil * dt_min ELSE soil1
      hum3 == IF acts.Watering THEN hum2 + 5 * dt_min ELSE hum2
      hum4 == IF acts.Misting THEN hum3 + rate.mist_hum * dt_min ELSE hum3
      temp4 == IF acts.Misting THEN temp3 - 2 * dt_min ELSE temp3
      boost == IF light1 < LIGHT_MIN THEN 2 ELSE 1
      light2 == IF acts.Lighting THEN light1 + rate.lamp_lux * boost * dt_min
                ELSE light1
  IN [temp |-> clamp(temp4 + noise * 2 * dt_min, -2000, 6000),
      humidity |-> clamp(hum4 + noise * 5 * dt_min, 0, 10000),
      light |-> clamp(light2 + noise * 80 * dt_min, 0, 250000),
      rain |-> clamp(v.rain, 0, 2000),
      soil |-> clamp(soil2 + noise * 3 * dt_min, 0, 10000)]

\* the dt_min of a run's steps
PhysicsTicks(g) == IF g = "flood" THEN {15} ELSE {1}

InitPhysics ==
  /\ EnvConstruct
  /\ program = "physics"
  /\ group \in {"flood", "drought"}
  /\ background \in {"all", "cooling"}
  /\ started = 0
  /\ now = started
  /\ values = PhysicsStart(group)
  /\ faults = NoFaults
  /\ actions = blank_actions
  /\ on_since = [k \in Keys |-> None]
  /\ reasons = << >>
  /\ targets = targets_for_now(PlantTomato, now)
  /\ rain_forecast = FALSE
  /\ calls = "none"
  /\ prev_actions = blank_actions
  /\ prev_on_since = [k \in Keys |-> None]
  /\ twin_actions = blank_actions
  /\ twin_on_since = [k \in Keys |-> None]
  /\ app = AppConstruct
  /\ changed_at = [k \in Strict |-> None]
  /\ latch_until = [k \in Latched |-> None]

\* one call of GreenhousePhysics.step on the state vector
PhysicsStep ==
  \E ambient \in Ambients, dt_min \in PhysicsTicks(group), rate \in PhysicsRates :
   \E noise \in Noises, acts \in {blank_actions, Flags(background)} :
    /\ program = "physics"
    /\ ticks < MaxTicks
    /\ values' = step(values, acts, ambient, dt_min, rate, noise)
    /\ actions' = acts
    /\ now' = now + dt_min
    /\ ticks' = ticks + 1
    /\ calls' = "step"
    /\ UNCHANGED <<rain_forecast, faults, notes, active_anomaly, anomaly_until,
                   auto_cleared>>
    /\ UNCHANGED ctl_vars

InitWorld == InitEnv \/ InitPhysics

NextWorld == NextEnv \/ PhysicsStep

\* both environment programs: simulator.EnvironmentModel and physics.GreenhousePhysics
SpecWorld == InitWorld /\ [][NextWorld]_vars

---------------------------------------------------------------------------
\* gui.py: SmartGreenhouseApp.  The constructor calls _ui_loop() and then
\* _tick_loop() itself; each of them ends by scheduling itself again with
\* self.after, and from then on Tk's main loop dispatches them, and the handlers
\* of the user's clicks, one at a time.  A callback is followed through its
\* steps by app.pc (the tick) and app.ui_pc (the UI refresh).

LoopStarts == {1170, 345}

\* the codes the user picks in the anomaly menu in these runs
LoopAnomalies == {"NORMAL", "RAIN_FORECAST"}

\* what the user does in a run: the mode, rain and anomaly controls ("quiet"),
\* the anomaly menu and the minutes per tick ("expiry"), the clock controls
\* ("clock"), the manual override of the sensors ("sliders"), or the anomaly
\* menu with fault codes and the random-faults switch ("faults")
LoopScenarios == {"quiet", "expiry", "clock", "sliders", "faults"}

\* the codes the user applies from the anomaly menu in a run
LoopCodes(bg) ==
  IF bg = "faults" THEN {"NORMAL", "PUMP_FAULT", "HEAT_WAVE"} ELSE LoopAnomalies

InitLoop ==
  /\ EnvConstruct
  /\ actions = blank_actions
  /\ on_since = [k \in Keys |-> None]
  /\ reasons = << >>
  /\ values = DEFAULT_VALUES
  /\ started \in LoopStarts
  /\ now = started
  /\ group = "loop"
  /\ background \in LoopScenarios
  /\ targets = targets_for_now(PlantTomato, now)
  /\ rain_forecast = FALSE
  /\ faults = NoFaults
  /\ calls = "none"
  /\ prev_actions = blank_actions
  /\ prev_on_since = [k \in Keys |-> None]
  /\ twin_actions = blank_actions
  /\ twin_on_since = [k \in Keys |-> None]
  /\ app = AppConstruct
  /\ changed_at = [k \in Strict |-> None]
  /\ program = "loop"
  /\ latch_until = [k \in Latched |-> None]

\* what no step of the loop touches
loop_frame == <<started, prev_actions, prev_on_since, changed_at, group, background,
                program, latch_until, city_code, season_code, twin_actions,
                twin_on_since>>

\* a main loop that starts a callback while another one is part-way through
dispatchable_preemptive == TRUE

\* Tk's main loop starts a callback only when no other callback is running: the
\* two loops are scheduled with self.after and neither handler calls update()
dispatchable == app.pc = "idle" /\ app.ui_pc = "idle"

\* datetime.now() cut to the minute
wall_clock == started + app.real

\* the rain_forecast argument the tick passes to compute and to apply_tick
rain_fc == app.rain_forecast \/ active_anomaly = "RAIN_FORECAST"

\* _tick_loop, first part: the clock advances, the targets are looked up and, in
\* auto mode, compute decides the flags; in manual mode the flags are all OFF
TickDecide ==
  /\ program = "loop"
  /\ app.pc = "idle"
  /\ \/ app.phase = "start_tick"
     \/ app.phase = "mainloop" /\ dispatchable
  /\ ticks < MaxTicks
  /\ LET t == IF app.sim_time_enabled THEN now + app.minutes_per_tick
                                        ELSE wall_clock
         tg == targets_for_now(PlantTomato, t)
         r == compute(actions, on_since, values, tg, rain_fc, faults, t)
         ret == app.ref.made + 1
     IN /\ now' = t
        /\ targets' = tg
        /\ ticks' = ticks + 1
        /\ IF app.auto_mode
             THEN /\ actions' = r.act
                  /\ on_since' = r.on_since
                  /\ reasons' = r.reasons
                  /\ rain_forecast' = rain_fc
                  /\ calls' = "compute"
                  /\ app' = [app EXCEPT
                       !.pc = "decided",
                       !.ref = [stored |-> stored_ref(ret, ret + 1),
                                returned |-> ret, made |-> ret + 1],
                       !.loc = [auto |-> TRUE, actions |-> r.act,
                                reasons |-> r.reasons, notes |-> {}],
                       !.computed = [tick |-> ticks + 1, now |-> t, rain |-> rain_fc,
                                     flags |-> r.act]]
             ELSE /\ UNCHANGED <<actions, on_since, reasons, rain_forecast>>
                  /\ calls' = "manual"
                  /\ app' = [app EXCEPT
                       !.pc = "decided",
                       !.ref = [@ EXCEPT !.returned = ret, !.made = ret],
                       !.loc = [auto |-> FALSE, actions |-> blank_actions,
                                reasons |-> <<"Manual mode">>, notes |-> {}]]
  /\ UNCHANGED <<values, faults, active_anomaly, anomaly_until, notes, anomaly_code,
                 auto_cleared>>
  /\ UNCHANGED loop_frame

\* random faults drawn whatever the switch says
\* (below) the optional random faults of _tick_loop: with the switch on, random.random()
\* < 0.02 decides whether a flag is set and random.choice picks it
random_picks_always(enabled) == {"none", "fan_fault", "pump_fault", "mister_fault"}

random_picks(enabled) ==
  IF enabled THEN {"none", "fan_fault", "pump_fault", "mister_fault"} ELSE {"none"}

random_fault(f, pick) == IF pick = "none" THEN f ELSE [f EXCEPT ![pick] = TRUE]

\* the environment step given the flags the previous tick published
TickEnvStale ==
  /\ program = "loop"
  /\ app.pc = "decided"
  /\ \E pick \in random_picks(app.enable_random_faults) :
       LET r == apply_tick(active_anomaly, anomaly_until, random_fault(faults, pick),
                           values, app.latest_actions, city_code, season_code, now,
                           app.minutes_per_tick, rain_fc)
       IN /\ values' = r.values
          /\ notes' = r.notes
          /\ faults' = r.faults
          /\ active_anomaly' = r.active_anomaly
          /\ anomaly_until' = r.anomaly_until
          /\ auto_cleared' = anomaly_expired(active_anomaly, anomaly_until, now)
          /\ calls' = "apply_tick"
          /\ app' = [app EXCEPT
               !.pc = "stepped",
               !.injected = @ \cup ({pick} \ {"none"}),
               !.loc.notes = r.notes,
               !.stepped = [tick |-> ticks, now |-> now, rain |-> rain_fc,
                            flags |-> app.latest_actions]]
  /\ UNCHANGED <<actions, on_since, reasons, targets, rain_forecast, now, ticks,
                 anomaly_code>>
  /\ UNCHANGED loop_frame

\* _tick_loop, second part: the random faults, then apply_tick advances the environment under the flags
\* just decided and self.values takes the returned state
TickEnv ==
  /\ program = "loop"
  /\ app.pc = "decided"
  /\ \E pick \in random_picks(app.enable_random_faults) :
       LET r == apply_tick(active_anomaly, anomaly_until, random_fault(faults, pick),
                           values, app.loc.actions, city_code, season_code, now,
                           app.minutes_per_tick, rain_fc)
       IN /\ values' = r.values
          /\ notes' = r.notes
          /\ faults' = r.faults
          /\ active_anomaly' = r.active_anomaly
          /\ anomaly_until' = r.anomaly_until
          /\ auto_cleared' = anomaly_expired(active_anomaly, anomaly_until, now)
          /\ calls' = "apply_tick"
          /\ app' = [app EXCEPT
               !.pc = "stepped",
               !.injected = @ \cup ({pick} \ {"none"}),
               !.loc.notes = r.notes,
               !.stepped = [tick |-> ticks, now |-> now, rain |-> rain_fc,
                            flags |-> app.loc.actions]]
  /\ UNCHANGED <<actions, on_since, reasons, targets, rain_forecast, now, ticks,
                 anomaly_code>>
  /\ UNCHANGED loop_frame

\* _tick_loop, third part: db.insert_reading(self.values ..., ts = sim_clock)
TickPersist ==
  /\ program = "loop"
  /\ app.pc = "stepped"
  /\ calls' = "insert_reading"
  /\ app' = [app EXCEPT !.pc = "persisted",
                        !.db = Append(@, [ts |-> now, values |-> values])]
  /\ UNCHANGED <<actions, on_since, reasons, values, targets, rain_forecast, faults,
                 now, ticks>>
  /\ UNCHANGED <<active_anomaly, anomaly_until, notes, anomaly_code, auto_cleared>>
  /\ UNCHANGED loop_frame

\* _tick_loop, last part: the four _latest_ fields are assigned and the next tick
\* is scheduled
TickPublish ==
  /\ program = "loop"
  /\ app.pc = "persisted"
  /\ calls' = "publish"
  /\ app' = [app EXCEPT
       !.pc = "idle",
       !.phase = IF @ = "start_tick" THEN "mainloop" ELSE @,
       !.latest_actions = app.loc.actions,
       !.latest_targets = targets,
       !.latest_reasons = app.loc.reasons,
       !.latest_notes = app.loc.notes \cup {<<"_maintenance", "">>},
       !.stamp = [actions |-> ticks, targets |-> ticks, reasons |-> ticks,
                  notes |-> ticks]]
  /\ UNCHANGED <<actions, on_since, reasons, values, targets, rain_forecast, faults,
                 now, ticks>>
  /\ UNCHANGED <<active_anomaly, anomaly_until, notes, anomaly_code, auto_cleared>>
  /\ UNCHANGED loop_frame

\* what the steps of the UI refresh and the user's clicks leave alone
ui_frame == <<actions, on_since, reasons, values, targets, rain_forecast, faults,
              now, ticks, notes, auto_cleared>>

\* _ui_loop, first part: _update_clock and _update_sensors, which reads
\* _latest_targets
UiSensors ==
  /\ program = "loop"
  /\ app.ui_pc = "idle"
  /\ \/ app.phase = "start_ui"
     \/ app.phase = "mainloop" /\ dispatchable
  /\ app' = [app EXCEPT
       !.ui_pc = "sensors",
       !.seen = [targets |-> app.stamp.targets, actions |-> Unread,
                 notes |-> Unread]]
  /\ UNCHANGED <<calls, active_anomaly, anomaly_until, anomaly_code>>
  /\ UNCHANGED ui_frame
  /\ UNCHANGED loop_frame

\* _ui_loop, second part: _update_actions, which reads _latest_actions
UiActions ==
  /\ program = "loop"
  /\ app.ui_pc = "sensors"
  /\ app' = [app EXCEPT !.ui_pc = "actions", !.seen.actions = app.stamp.actions]
  /\ UNCHANGED <<calls, active_anomaly, anomaly_until, anomaly_code>>
  /\ UNCHANGED ui_frame
  /\ UNCHANGED loop_frame

\* _ui_loop, last part: _update_diagnostics, which reads _latest_notes, and the
\* next refresh is scheduled
UiDiagnostics ==
  /\ program = "loop"
  /\ app.ui_pc = "actions"
  /\ app' = [app EXCEPT
       !.ui_pc = "idle",
       !.phase = IF @ = "start_ui" THEN "start_tick" ELSE @,
       !.seen.notes = app.stamp.notes]
  /\ UNCHANGED <<calls, active_anomaly, anomaly_until, anomaly_code>>
  /\ UNCHANGED ui_frame
  /\ UNCHANGED loop_frame

\* the user flips the auto-mode switch
ToggleAuto ==
  /\ program = "loop"
  /\ background = "quiet"
  /\ app.phase = "mainloop"
  /\ dispatchable
  /\ app' = [app EXCEPT !.auto_mode = ~@]
  /\ UNCHANGED <<calls, active_anomaly, anomaly_until, anomaly_code>>
  /\ UNCHANGED ui_frame
  /\ UNCHANGED loop_frame

\* the user flips the rain-forecast switch
ToggleRain ==
  /\ program = "loop"
  /\ background = "quiet"
  /\ app.phase = "mainloop"
  /\ dispatchable
  /\ app' = [app EXCEPT !.rain_forecast = ~@]
  /\ UNCHANGED <<calls, active_anomaly, anomaly_until, anomaly_code>>
  /\ UNCHANGED ui_frame
  /\ UNCHANGED loop_frame

\* _apply_anomaly: the user picks a code in the menu and applies it
ApplyAnomaly ==
  \E code \in LoopCodes(background) :
    /\ program = "loop"
    /\ background \in {"quiet", "expiry", "faults"}
    /\ app.phase = "mainloop"
    /\ dispatchable
    /\ anomaly_code' = code
    /\ IF code = "NORMAL"
         THEN /\ active_anomaly' = "NORMAL"
              /\ anomaly_until' = None
              /\ calls' = "clear_anomaly"
         ELSE /\ active_anomaly' = code
              /\ anomaly_until' = <<now + 60 * DURATION_HOURS>>
              /\ calls' = "set_anomaly"
    /\ UNCHANGED app
    /\ UNCHANGED ui_frame
    /\ UNCHANGED loop_frame

\* the user flips the random-faults switch
ToggleRandomFaults ==
  /\ program = "loop"
  /\ background = "faults"
  /\ app.phase = "mainloop"
  /\ dispatchable
  /\ app' = [app EXCEPT !.enable_random_faults = ~@]
  /\ UNCHANGED <<calls, active_anomaly, anomaly_until, anomaly_code>>
  /\ UNCHANGED ui_frame
  /\ UNCHANGED loop_frame

\* the user flips the simulated-time switch
ToggleSimTime ==
  /\ program = "loop"
  /\ background = "clock"
  /\ app.phase = "mainloop"
  /\ dispatchable
  /\ app' = [app EXCEPT !.sim_time_enabled = ~@]
  /\ UNCHANGED <<calls, active_anomaly, anomaly_until, anomaly_code>>
  /\ UNCHANGED ui_frame
  /\ UNCHANGED loop_frame

\* what the user types in the minutes-per-tick entry in these runs
TickEntries == {15, 500}

\* _apply_minutes_per_tick: the entry is clamped to 1..120
ApplyMinutesPerTick ==
  \E e \in TickEntries :
    /\ program = "loop"
    /\ background \in {"expiry", "clock"}
    /\ app.phase = "mainloop"
    /\ dispatchable
    /\ app' = [app EXCEPT !.minutes_per_tick = Max(1, Min(120, e))]
    /\ UNCHANGED <<calls, active_anomaly, anomaly_until, anomaly_code>>
    /\ UNCHANGED ui_frame
    /\ UNCHANGED loop_frame

\* _reset_clock_now: the simulated clock is set to the wall clock
ResetClockNow ==
  /\ program = "loop"
  /\ background = "clock"
  /\ app.phase = "mainloop"
  /\ dispatchable
  /\ now' = wall_clock
  /\ calls' = "reset_clock"
  /\ UNCHANGED <<app, actions, on_since, reasons, values, targets, rain_forecast,
                 faults, ticks, notes, auto_cleared>>
  /\ UNCHANGED <<active_anomaly, anomaly_until, anomaly_code>>
  /\ UNCHANGED loop_frame

MaxRealMinutes == 1

\* a minute of real time goes by between two callbacks
MinutePasses ==
  /\ program = "loop"
  /\ background = "clock"
  /\ app.phase = "mainloop"
  /\ dispatchable
  /\ app.real < MaxRealMinutes
  /\ app' = [app EXCEPT !.real = @ + 1]
  /\ UNCHANGED <<calls, active_anomaly, anomaly_until, anomaly_code>>
  /\ UNCHANGED ui_frame
  /\ UNCHANGED loop_frame

\* the user flips the manual-override switch of the sensor sliders
ToggleManualOverride ==
  /\ program = "loop"
  /\ background = "sliders"
  /\ app.phase = "mainloop"
  /\ dispatchable
  /\ app' = [app EXCEPT !.manual_override = ~@]
  /\ UNCHANGED <<calls, active_anomaly, anomaly_until, anomaly_code>>
  /\ UNCHANGED ui_frame
  /\ UNCHANGED loop_frame

\* the slider positions the user drags to in these runs: a step of each
\* slider's 200-step scale
SliderMoves == {<<"temp", 3030>>, <<"soil", 2000>>}

\* _on_slider: the label follows the slider; self.values takes the value only
\* when manual_override is ON
OnSlider ==
  \E mv \in SliderMoves :
    /\ program = "loop"
    /\ background = "sliders"
    /\ app.phase = "mainloop"
    /\ dispatchable
    /\ calls' = "slider"
    /\ values' = IF app.manual_override THEN [values EXCEPT ![mv[1]] = mv[2]]
                                        ELSE values
    /\ UNCHANGED <<app, actions, on_since, reasons, targets, rain_forecast, faults,
                   now, ticks, notes, auto_cleared>>
    /\ UNCHANGED <<active_anomaly, anomaly_until, anomaly_code>>
    /\ UNCHANGED loop_frame

NextLoop ==
  \/ TickDecide
  \/ TickEnv
  \/ TickPersist
  \/ TickPublish
  \/ UiSensors
  \/ UiActions
  \/ UiDiagnostics
  \/ ToggleAuto
  \/ ToggleRain
  \/ ApplyAnomaly
  \/ ToggleRandomFaults
  \/ ToggleSimTime
  \/ ApplyMinutesPerTick
  \/ ResetClockNow
  \/ MinutePasses
  \/ ToggleManualOverride
  \/ OnSlider

SpecLoop == InitLoop /\ [][NextLoop]_vars

---------------------------------------------------------------------------
\* Properties of the controller, continued

\* C11: over any sequence of compute calls, the returned flags other than Alarm
\* and the stored activation timers do not depend on the faults argument: a
\* controller given the same calls with no faults agrees on all of them
Thm_C11_FaultsAdvisory ==
  calls = "compute" =>
    /\ \A k \in Keys \ {"Alarm"} : actions[k] = twin_actions[k]
    /\ on_since = twin_on_since

\* a pump fault alone raises the alarm while Watering, ON since an earlier call,
\* stays ON in both runs
Wit_C11_DifferInAlarmOnly ==
  /\ calls = "compute"
  /\ faults.pump_fault
  /\ actions.Alarm
  /\ ~twin_actions.Alarm
  /\ actions.Watering
  /\ on_since.Watering # None
  /\ on_since.Watering[1] < now

\* the ON-trigger of Ventilation and Windows on the call just made
want_vent_now ==
  \/ values.temp > targets.temp_target + TEMP_BAND_C
  \/ values.humidity > targets.hum_target + HUM_BAND_PCT

\* C15: after every compute call each strict actuator whose trigger holds on that
\* call is ON: Ventilation if temperature or humidity is above target + band,
\* Windows likewise when no rain is forecast, Watering if soil < soil_min, Misting
\* if humidity < hum_target - band, Lighting if light < light_min and it is day or
\* night lighting is allowed; by day and by night, whatever the previous state
Thm_C15_StrictOnTrigger ==
  calls = "compute" =>
    /\ want_vent_now => actions.Ventilation
    /\ (want_vent_now /\ ~rain_forecast) => actions.Windows
    /\ values.soil < targets.soil_min => actions.Watering
    /\ values.humidity < targets.hum_target - HUM_BAND_PCT => actions.Misting
    /\ (values.light < targets.light_min
          /\ (~is_night(now) \/ ALLOW_LIGHT_AT_NIGHT)) => actions.Lighting

\* at night, a call whose ventilation trigger holds finds Ventilation ON for at
\* least its minimum ON time and leaves it ON, with Lighting ON in the dark
Wit_C15_TriggeredAtNight ==
  /\ calls = "compute"
  /\ is_night(now)
  /\ want_vent_now
  /\ prev_actions.Ventilation
  /\ changed_at.Ventilation # None
  /\ (now - changed_at.Ventilation[1]) * 60 >= MIN_ON_VENT_SEC
  /\ actions.Ventilation
  /\ values.light < targets.light_min
  /\ actions.Lighting

\* the hysteresis zone of Watering, Misting and Lighting on the call just made:
\* the trigger does not hold and the release condition does not hold either
in_zone(k) ==
  CASE k = "Watering" ->
         /\ targets.soil_min <= values.soil
         /\ values.soil < targets.soil_min + SOIL_BAND_PCT
    [] k = "Misting" ->
         /\ targets.hum_target - HUM_BAND_PCT <= values.humidity
         /\ values.humidity < targets.hum_target - HUM_BAND_PCT + HUM_HYST_PCT
    [] OTHER ->
         /\ targets.light_min <= values.light
         /\ values.light < targets.light_min + LIGHT_BAND_LUX

\* C16: a compute call that finds Watering, Misting or Lighting inside its
\* hysteresis zone leaves the actuator's flag and its activation timer exactly as
\* they were after the previous call, ON or OFF, minimum ON time elapsed or not
Thm_C16_HysteresisHold ==
  calls = "compute" =>
    \A k \in {"Watering", "Misting", "Lighting"} :
      in_zone(k) => /\ actions[k] = prev_actions[k]
                    /\ on_since[k] = prev_on_since[k]

\* Watering held ON inside the zone after its minimum ON time has elapsed
Wit_C16_HeldPastMinOn ==
  /\ calls = "compute"
  /\ in_zone("Watering")
  /\ prev_actions.Watering
  /\ actions.Watering
  /\ on_since.Watering # None
  /\ (now - on_since.Watering[1]) * 60 >= MIN_ON_WATER_SEC

\* the minimum ON time of k, ON since before the call just made, had elapsed at
\* that call
min_on_elapsed(k) ==
  /\ prev_on_since[k] # None
  /\ (now - prev_on_since[k][1]) * 60 >= MinOn(k)

\* C17: after a compute call at night on which neither the temperature nor the
\* humidity trigger for ventilation holds, Ventilation and Windows are each OFF if
\* they were OFF or their minimum ON time has elapsed, hysteresis zone or not;
\* one whose minimum ON time has not elapsed is left ON with its timer (Windows
\* unless a rain forecast closes it)
Thm_C17_NightClosing ==
  (calls = "compute" /\ is_night(now) /\ ~want_vent_now) =>
    \A k \in {"Ventilation", "Windows"} :
      IF ~prev_actions[k] \/ min_on_elapsed(k)
        THEN ~actions[k] /\ on_since[k] = None
        ELSE \/ k = "Windows" /\ rain_forecast /\ ~actions[k]
             \/ actions[k] /\ on_since[k] = prev_on_since[k]

\* at night, with the temperature exactly at target + band (no trigger, inside
\* the hysteresis zone), Ventilation and Windows, ON for their minimum ON time,
\* are closed
Wit_C17_ClosedInsideZone ==
  /\ calls = "compute"
  /\ is_night(now)
  /\ ~want_vent_now
  /\ values.temp > targets.temp_target + TEMP_BAND_C - TEMP_HYST_C
  /\ prev_actions.Ventilation /\ min_on_elapsed("Ventilation")
  /\ prev_actions.Windows /\ min_on_elapsed("Windows")
  /\ ~rain_forecast
  /\ ~actions.Ventilation
  /\ ~actions.Windows

released_now(k) ==
  CASE k \in {"Ventilation", "Windows"} ->
         /\ values.temp <= targets.temp_target + TEMP_BAND_C - TEMP_HYST_C
         /\ values.humidity <= targets.hum_target + HUM_BAND_PCT - HUM_HYST_PCT
    [] k = "Watering" -> values.soil >= targets.soil_min + SOIL_BAND_PCT
    [] k = "Misting" ->
         values.humidity >= targets.hum_target - HUM_BAND_PCT + HUM_HYST_PCT
    [] OTHER -> values.light >= targets.light_min + LIGHT_BAND_LUX

\* C27: a compute call that finds a strict actuator ON with its trigger false and
\* its release condition true returns it OFF if now - activated_at >= its
\* minimum ON time and ON otherwise (Windows unless a rain forecast closes it);
\* and with the timestamp advancing on every tick, every strict actuator that is
\* ON is eventually OFF once the release conditions hold on every tick
Thm_C27_StrictRelease ==
  /\ [](calls = "compute" =>
          \A k \in Strict :
            (prev_actions[k] /\ released_now(k)) =>
              IF min_on_elapsed(k)
                THEN ~actions[k] /\ on_since[k] = None
                ELSE actions[k] \/ (k = "Windows" /\ rain_forecast))
  /\ \A k \in Strict : actions[k] ~> ~actions[k]

\* Watering, ON for less than its minimum ON time on the previous call, is
\* returned OFF by a call that finds the release condition true and the minimum
\* ON time elapsed
Wit_C27_ReleasedAtMinOn ==
  /\ calls = "compute"
  /\ prev_actions.Watering
  /\ released_now("Watering")
  /\ min_on_elapsed("Watering")
  /\ (now - prev_on_since.Watering[1]) * 60 < MIN_ON_WATER_SEC + 600
  /\ ~actions.Watering
  /\ prev_actions.Lighting /\ actions.Lighting /\ ~min_on_elapsed("Lighting")

\* C28: after a compute call on which temperature > temp_target + TEMP_BAND,
\* Heating is OFF and Ventilation is ON, whatever Heating was before
Thm_C28_HeatingExcluded ==
  (calls = "compute" /\ values.temp > targets.temp_target + TEMP_BAND_C) =>
    ~actions.Heating /\ actions.Ventilation

\* Heating, ON before the call, is OFF after a call that finds the temperature
\* above target + band
Wit_C28_HeatingDropped ==
  /\ calls = "compute"
  /\ values.temp > targets.temp_target + TEMP_BAND_C
  /\ prev_actions.Heating
  /\ ~actions.Heating
  /\ actions.Ventilation

\* C29 as stated: after every compute call Windows is never ON while Ventilation
\* is OFF, whatever the rain_forecast values of the calls
Cex_C29_WindowsImplyVentilation ==
  calls = "compute" => (actions.Windows => actions.Ventilation)

\* Windows and Ventilation have the same flag and the same activation timer
windows_with_ventilation ==
  /\ actions.Windows = actions.Ventilation
  /\ on_since.Windows = on_since.Ventilation

\* C29, amended: a compute call with rain_forecast false that finds Windows and
\* Ventilation with the same flag and the same activation timer leaves them so,
\* hence over calls with no rain forecast Windows is ON iff Ventilation is ON
Thm_C29_WindowsFollowVentilation ==
  [][(calls' = "compute" /\ ~rain_forecast' /\ windows_with_ventilation) =>
       windows_with_ventilation']_vars

\* with no rain forecast so far Windows and Ventilation, switched ON together on
\* an earlier call, are released together
Wit_C29_ReleasedTogether ==
  /\ calls = "compute"
  /\ ~rain_forecast
  /\ prev_actions.Windows /\ prev_actions.Ventilation
  /\ prev_on_since.Windows = prev_on_since.Ventilation
  /\ ~is_night(now)
  /\ ~actions.Windows /\ ~actions.Ventilation

\* C30: after every compute call RainProtection equals that call's rain_forecast
\* input, and it has no activation timer
Thm_C30_RainProtectionFollows ==
  calls = "compute" =>
    /\ actions.RainProtection = rain_forecast
    /\ on_since.RainProtection = None

\* the first call with no rain forecast after one with it: RainProtection is OFF
Wit_C30_ClearedAtOnce ==
  /\ calls = "compute"
  /\ ~rain_forecast
  /\ prev_actions.RainProtection
  /\ ~actions.RainProtection

---------------------------------------------------------------------------
\* Properties of the environment model, continued

\* the step being taken, repeated from the same starting state at the same time
\* with the fault flags f and the actuator flags acts
tick_as(f, acts) ==
  apply_tick(active_anomaly, anomaly_until, f, values, acts, city_code,
             season_code, now', now' - now, rain_forecast')

\* an environment step with Watering ON whose pump fault was set before the step
\* and is not injected by an anomaly during it
PumpFaultStep ==
  /\ calls' = "apply_tick"
  /\ actions'.Watering
  /\ faults.pump_fault
  /\ <<"anomaly", "Pump fault injected">> \notin notes'

\* C12 as stated: the change of soil moisture over a step with Watering ON and
\* pump_fault set is a quarter (rounded down to 0.01) of the change over the same
\* step with pump_fault clear
Cex_C12_NetIncreaseQuarter ==
  [][PumpFaultStep =>
       LET ok == tick_as([faults EXCEPT !.pump_fault = FALSE], actions').values
           a == values'.soil - values.soil
           b == ok.soil - values.soil
       IN 4 * a <= b /\ b < 4 * a + 4]_vars

\* C12, amended: what Watering adds to soil moisture in a step (soil after the step
\* minus soil after the same step with Watering OFF) is, with pump_fault set, a
\* quarter (rounded down to 0.01) of what it adds with pump_fault clear, as long
\* as the soil stays below 100 %
Thm_C12_WateringIncrementQuarter ==
  [][PumpFaultStep =>
       LET ok == tick_as([faults EXCEPT !.pump_fault = FALSE], actions').values
           dry == tick_as(faults, [actions' EXCEPT !.Watering = FALSE]).values
           a == values'.soil - dry.soil
           b == ok.soil - dry.soil
       IN ok.soil < 10000 => 4 * a <= b /\ b < 4 * a + 4]_vars

\* a step watered through a pump whose fault outlived its anomaly, the soil
\* staying below 100 %
Wit_C12_LimitedFlow ==
  /\ calls = "apply_tick"
  /\ actions.Watering
  /\ <<"Watering", "Pump fault limits flow">> \in notes
  /\ <<"anomaly", "Pump fault injected">> \notin notes
  /\ values.soil > 0
  /\ values.soil < 9000

\* an environment step with Windows ON whose fan fault was set before the step
\* and is not injected by an anomaly during it
FanFaultWindowsStep ==
  /\ calls' = "apply_tick"
  /\ actions'.Windows
  /\ faults.fan_fault
  /\ <<"anomaly", "Fan fault injected">> \notin notes'

\* C13: in a step with fan_fault set and Windows ON the ventilation efficiency is
\* not reduced: temperature and humidity after the step are those of the same
\* step with fan_fault clear
Cex_C13_WindowsPathUnreduced ==
  [][FanFaultWindowsStep =>
       LET ok == tick_as([faults EXCEPT !.fan_fault = FALSE], actions').values
       IN /\ values'.temp = ok.temp
          /\ values'.humidity = ok.humidity
          /\ <<"Ventilation", "Fan fault reduces effect">> \notin notes']_vars

\* C32: after any sequence of set_anomaly, clear_anomaly and apply_tick calls
\* the program makes, active_anomaly is NORMAL iff anomaly_until is unset, and a
\* non-NORMAL anomaly has an expiry, three hours after a time the clock has shown
Thm_C32_AnomalyWellFormed ==
  /\ (active_anomaly = "NORMAL") <=> (anomaly_until = None)
  /\ active_anomaly # "NORMAL" =>
       /\ anomaly_until # None
       /\ anomaly_until[1] \in
            {t + 60 * DURATION_HOURS : t \in started..now}

\* apply_tick has found the anomaly expired and cleared it, expiry included
Wit_C32_AutoCleared ==
  /\ calls = "apply_tick"
  /\ auto_cleared
  /\ active_anomaly = "NORMAL"
  /\ anomaly_until = None
  /\ ticks >= 2

\* C14: over any sequence of set_anomaly, clear_anomaly and apply_tick calls,
\* active_anomaly holds exactly one code (NORMAL iff no expiry is set) and changes
\* only as follows: set_anomaly makes it the code given, replacing whatever was
\* active, with the expiry three hours from the call; clear_anomaly makes it
\* NORMAL; apply_tick makes it NORMAL when now > expires_at and otherwise leaves
\* the code and its expiry as they were
Thm_C14_AnomalyStateMachine ==
  [][/\ active_anomaly' \in AnomalyCodes \cup {"NORMAL"}
     /\ (active_anomaly' = "NORMAL") <=> (anomaly_until' = None)
     /\ active_anomaly' # active_anomaly =>
          calls' \in {"set_anomaly", "clear_anomaly", "apply_tick"}
     /\ calls' = "set_anomaly" =>
          /\ active_anomaly' # "NORMAL"
          /\ anomaly_until' = <<now + 60 * DURATION_HOURS>>
     /\ calls' = "clear_anomaly" => active_anomaly' = "NORMAL"
     /\ calls' = "apply_tick" =>
          IF active_anomaly # "NORMAL" /\ now' > anomaly_until[1]
            THEN active_anomaly' = "NORMAL"
            ELSE /\ active_anomaly' = active_anomaly
                 /\ anomaly_until' = anomaly_until]_vars

\* a cold snap set, with a new expiry, after a step taken under a heat wave
Wit_C14_Replaced ==
  /\ calls = "set_anomaly"
  /\ active_anomaly = "COLD_SNAP"
  /\ <<"anomaly", "Heat wave">> \in notes
  /\ now > started
  /\ anomaly_until = <<now + 60 * DURATION_HOURS>>

\* the codes the baseline tables list
KnownCities == {"Ruse", "Varna", "Burgas", "Sofia", "Plovdiv"}
KnownSeasons == {"WINTER", "SPRING", "SUMMER", "FALL"}

\* the outside values at time t over the default baseline 10.0 C / 65.0 % RH
default_outside(t) ==
  LET swing == sin(hour_of_day(t) - 360)
  IN << 1000 + (320 * swing) \div 10000,
        clamp(6500 - (700 * swing) \div 10000, 2500, 9500) >>

\* the natural light at time t of a season whose sunrise is 7.5 and sunset 17.0
default_light(t) == natural_light_lux("WINTER", t)

\* C19: an environment step whose city or season code is not in the baseline
\* tables returns a clamped state computed over the default outside baseline
\* (10.0 C, 65.0 % RH) and, when the season is unknown, over sunrise 7.5 and
\* sunset 17.0; the anomaly state, the faults and the anomaly note are those of
\* the same step with known codes
Thm_C19_LookupFallback ==
  [][(calls' = "apply_tick"
        /\ (city_code \notin KnownCities \/ season_code \notin KnownSeasons)) =>
       LET nat == IF season_code \in KnownSeasons
                    THEN natural_light_lux(season_code, now')
                    ELSE default_light(now')
           r == apply_tick_from(default_outside(now'), nat, active_anomaly,
                                anomaly_until, faults, values, actions',
                                now', now' - now, rain_forecast')
           known == apply_tick(active_anomaly, anomaly_until, faults, values,
                               actions', "Ruse", "WINTER", now', now' - now,
                               rain_forecast')
       IN /\ values' = r.values
          /\ values'.temp \in -2000..6000
          /\ values'.humidity \in 500..9800
          /\ values'.light \in 0..200000
          /\ values'.soil \in 0..10000
          /\ active_anomaly' = known.active_anomaly
          /\ anomaly_until' = known.anomaly_until
          /\ faults' = known.faults
          /\ notes' = known.notes]_vars

\* a step in the summer of a city the tables do not list, taken in daylight under
\* a heat wave
Wit_C19_UnknownCity ==
  /\ calls = "apply_tick"
  /\ city_code \notin KnownCities
  /\ season_code = "SUMMER"
  /\ hour_of_day(now) = 1200
  /\ <<"anomaly", "Heat wave">> \in notes
  /\ values.light > 20000

---------------------------------------------------------------------------
\* The closed loop: on every tick compute decides the flags from the sensor
\* state and apply_tick advances the sensor state under those flags, at the same
\* timestamp, 15 minutes after the previous tick; no anomaly, no rain forecast.
\* Neither function looks at the date, only at the time of day and at elapsed
\* times, so the clock and the recorded timestamps are taken back a day at a
\* time, and a timestamp more than a day old is kept as exactly a day old.

\* config.PLANTS, the profiles of these runs
PLANTS(name) ==
  CASE name = "TOMATO" -> PlantTomato
    [] name = "CUCUMBER" ->
         [temp_day |-> 2500, temp_night |-> 1900, hum |-> 7000,
          light_min |-> 25000, soil_min |-> 5000]
    [] name = "LETTUCE" ->
         [temp_day |-> 1800, temp_night |-> 1200, hum |-> 6500,
          light_min |-> 20000, soil_min |-> 5000]

InitClosed ==
  /\ active_anomaly = "NORMAL"
  /\ anomaly_until = None
  /\ notes = {}
  /\ city_code \in KnownCities
  /\ season_code \in KnownSeasons
  /\ ticks = 0
  /\ anomaly_code = "NORMAL"
  /\ auto_cleared = FALSE
  /\ actions = blank_actions
  /\ on_since = [k \in Keys |-> None]
  /\ reasons = << >>
  /\ values = DEFAULT_VALUES
  /\ started = 720
  /\ now = started
  /\ group \in {"TOMATO", "CUCUMBER", "LETTUCE"}
  /\ background \in {"no_fault", "pump_fault"}
  /\ targets = targets_for_now(PLANTS(group), now)
  /\ rain_forecast = FALSE
  /\ faults = [NoFaults EXCEPT !.pump_fault = (background = "pump_fault")]
  /\ calls = "none"
  /\ prev_actions = blank_actions
  /\ prev_on_since = [k \in Keys |-> None]
  /\ twin_actions = blank_actions
  /\ twin_on_since = [k \in Keys |-> None]
  /\ app = AppConstruct
  /\ changed_at = [k \in Strict |-> None]
  /\ program = "closed"
  /\ latch_until = [k \in Latched |-> None]

\* _tick_loop, first part, in auto mode with simulated time
ClosedDecide ==
  /\ program = "closed"
  /\ calls # "compute"
  /\ LET t == now + MINUTES_PER_TICK
     IN ComputeCall(values, targets_for_now(PLANTS(group), t), FALSE, faults, t)

\* the timestamps of a record taken back by shift minutes, none older than floor
rebased(ons, shift, floor) ==
  [k \in DOMAIN ons |->
     IF ons[k] = None THEN None ELSE <<Max(ons[k][1] - shift, floor)>>]

\* _tick_loop, second part: apply_tick under the flags just decided
ClosedEnv ==
  /\ program = "closed"
  /\ calls = "compute"
  /\ LET r == apply_tick(active_anomaly, anomaly_until, faults, values, actions,
                         city_code, season_code, now, MINUTES_PER_TICK, FALSE)
         shift == IF now >= started + 1440 THEN 1440 ELSE 0
         floor == now - shift - 1440
     IN /\ values' = r.values
        /\ notes' = r.notes
        /\ faults' = r.faults
        /\ active_anomaly' = r.active_anomaly
        /\ anomaly_until' = r.anomaly_until
        /\ calls' = "apply_tick"
        /\ now' = now - shift
        /\ on_since' = rebased(on_since, shift, floor)
        /\ prev_on_since' = rebased(prev_on_since, shift, floor)
        /\ twin_on_since' = rebased(twin_on_since, shift, floor)
        /\ changed_at' = rebased(changed_at, shift, floor)
  /\ UNCHANGED <<actions, reasons, targets, rain_forecast, started, prev_actions,
                 group, background, program, latch_until, city_code, season_code,
                 ticks, anomaly_code, auto_cleared, twin_actions, app>>

NextClosed == ClosedDecide \/ ClosedEnv

\* what every step of the tick does to the record of the last call
ClosedAdvance == program = "closed" /\ calls' \in {"compute", "apply_tick"}

\* the tick re-arms itself with after(): the loop never stops
SpecClosed == InitClosed /\ [][NextClosed]_vars /\ WF_calls(ClosedAdvance)

\* Properties of the latch-based controller

\* C36: a call of apply_rules that finds temp < TEMP_LOW leaves the Heating latch
\* at now + 120 minutes or later; a call made before the latch time with
\* temp < TEMP_HIGH - 1 returns Heating ON, also with temp at or above TEMP_LOW;
\* and no call moves a latch to an earlier time or removes it
Thm_C36_HeatingLatch ==
  /\ [](calls = "apply_rules" =>
          /\ values.temp < TEMP_LOW =>
               /\ latch_until.Heating # None
               /\ latch_until.Heating[1] >= now + 120
               /\ actions.Heating
          /\ (latch_until.Heating # None /\ now < latch_until.Heating[1]
                /\ values.temp < TEMP_HIGH - 100) => actions.Heating)
  /\ [][\A k \in Latched :
          latch_until[k] # None =>
            latch_until'[k] # None /\ latch_until'[k][1] >= latch_until[k][1]]_vars

\* more than an hour after the call that found temp < TEMP_LOW, a call with the
\* temperature above TEMP_LOW and below TEMP_HIGH - 1 returns Heating ON
Wit_C36_HeldByLatch ==
  /\ calls = "apply_rules"
  /\ values.temp = 2890
  /\ latch_until.Heating # None
  /\ latch_until.Heating[1] - now < 60
  /\ now < latch_until.Heating[1]
  /\ actions.Heating

\* C37: apply_rules returns Alarm = true iff temp < TEMP_LOW - 3 or
\* temp > TEMP_HIGH + 3 or humidity < 30 or humidity > 90 or
\* soil_moisture < SOIL_MIN - 10, whatever the other flags and the rain forecast
Thm_C37_LatchAlarm ==
  calls = "apply_rules" =>
    actions.Alarm = \/ values.temp < 1200
                    \/ values.temp > 3300
                    \/ values.humidity < 3000
                    \/ values.humidity > 9000
                    \/ values.soil < 2000

\* Heating ON by its trigger under a rain forecast, and no Alarm
Wit_C37_HeatingNoAlarm ==
  /\ calls = "apply_rules"
  /\ values.temp = 1490
  /\ actions.Heating
  /\ rain_forecast /\ actions.RainProtection
  /\ ~actions.Alarm

\* Properties of the closed loop

\* C23 as stated: with no fault, a compute call that finds the temperature below
\* temp_target - TEMP_BAND returns Heating ON, and whenever Heating is ON the
\* loop reaches a compute call that finds the temperature at or above
\* temp_target + TEMP_HYST and returns Heating OFF
Cex_C23_HeatingConverges ==
  /\ []((background = "no_fault" /\ calls = "compute"
           /\ values.temp < targets.temp_target - TEMP_BAND_C) => actions.Heating)
  /\ (background = "no_fault" /\ calls = "compute" /\ actions.Heating) ~>
       (calls = "compute" /\ ~actions.Heating
          /\ values.temp >= targets.temp_target + TEMP_HYST_C)

\* C24: with and without a pump fault, a compute call that finds the soil
\* moisture below soil_min returns Watering ON, and whenever Watering is ON the
\* loop reaches a compute call that finds the soil moisture at or above
\* soil_min + SOIL_BAND and returns Watering OFF
Thm_C24_WateringConverges ==
  /\ []((calls = "compute" /\ values.soil < targets.soil_min) => actions.Watering)
  /\ (calls = "compute" /\ actions.Watering) ~>
       (calls = "compute" /\ ~actions.Watering
          /\ values.soil >= targets.soil_min + SOIL_BAND_PCT)

\* under a pump fault Watering, ON for more than an hour, is switched OFF by a
\* call that finds the soil moisture at soil_min + SOIL_BAND or above
Wit_C24_SlowRiseEnded ==
  /\ program = "closed"
  /\ background = "pump_fault"
  /\ calls = "compute"
  /\ prev_actions.Watering
  /\ ~actions.Watering
  /\ now - prev_on_since.Watering[1] > 60
  /\ values.soil >= targets.soil_min + SOIL_BAND_PCT

---------------------------------------------------------------------------
\* Properties of the loop

\* C18: on every tick in auto mode compute runs before apply_tick, apply_tick is
\* given the flags compute returned on that tick, the same timestamp and the
\* same rain_forecast value, and the reading is written only after apply_tick,
\* with the state apply_tick returned and the tick's timestamp
Thm_C18_TickOrdering ==
  [][/\ (app.pc = "decided" /\ app'.pc = "stepped" /\ app.loc.auto) =>
          /\ calls = "compute"
          /\ app.computed.tick = ticks
          /\ app.computed.flags = actions
          /\ app'.stepped.tick = ticks
          /\ app'.stepped.flags = app.computed.flags
          /\ app'.stepped.now = app.computed.now
          /\ app'.stepped.rain = app.computed.rain
          /\ \E pick \in random_picks(app.enable_random_faults) :
               values' = apply_tick(active_anomaly, anomaly_until,
                                    random_fault(faults, pick), values,
                                    actions, city_code, season_code,
                                    app.computed.now, app.minutes_per_tick,
                                    app.computed.rain).values
     /\ app'.db # app.db =>
          /\ calls = "apply_tick"
          /\ app.stepped.tick = ticks
          /\ Len(app.db) = ticks - 1
          /\ app'.db = Append(app.db, [ts |-> app.stepped.now, values |-> values])]_vars

\* the second tick, in auto mode under a rain forecast, has written its reading
Wit_C18_SecondReading ==
  /\ app.pc = "persisted"
  /\ app.loc.auto
  /\ ticks = 2
  /\ Len(app.db) = 2
  /\ app.stepped.rain
  /\ app.stepped.flags.RainProtection
  /\ app.db[2].values.rain = RAIN_MM_WHEN_FORECAST

\* C21 as stated: the sensor state is changed only by the environment step
Cex_C21_OnlyEnvironmentWrites ==
  [][values' # values => calls' = "apply_tick"]_vars

\* C21, amended: the compute call of a tick leaves the values and the faults it
\* is given as they were; the sensor state is changed by the environment step,
\* once per tick, and otherwise only by a sensor slider while manual override is
\* ON; the stored flags change only in compute; and the dictionary compute
\* returned is never the dictionary the controller stores
Thm_C21_ControllerFrame ==
  /\ [][/\ (app.pc = "idle" /\ app'.pc = "decided") =>
             values' = values /\ faults' = faults
        /\ values' # values =>
             \/ /\ app.pc = "decided" /\ app'.pc = "stepped"
                /\ calls' = "apply_tick"
                /\ app.stepped.tick # ticks /\ app'.stepped.tick = ticks
             \/ calls' = "slider" /\ app.manual_override
        /\ (actions' # actions \/ on_since' # on_since) => calls' = "compute"]_vars
  /\ [](app.ref.returned # app.ref.stored)

\* after two ticks, the second one in auto mode, a slider moved under manual
\* override has set the temperature, and the flags compute stored are untouched
Wit_C21_SliderWrote ==
  /\ calls = "slider"
  /\ app.manual_override
  /\ values.temp = 3030
  /\ ticks = 2
  /\ app.ref.returned # 0
  /\ app.ref.stored = app.ref.returned + 1
  /\ actions = app.loc.actions
  /\ actions.Heating

\* C34: a tick with auto mode off does not call compute and leaves the
\* controller's stored flags and activation timers as they were, and its
\* environment step is given every flag OFF, Alarm too, although the tick's
\* reason list is not empty
Thm_C34_ManualMode ==
  [][/\ (app.pc = "idle" /\ app'.pc = "decided" /\ ~app.auto_mode) =>
          /\ calls' = "manual"
          /\ app'.computed = app.computed
          /\ actions' = actions /\ on_since' = on_since
          /\ app'.loc.actions = blank_actions
          /\ app'.loc.reasons # << >>
     /\ (app.pc = "decided" /\ app'.pc = "stepped" /\ ~app.loc.auto) =>
          /\ calls = "manual"
          /\ app'.stepped.flags = blank_actions
          /\ ~app'.stepped.flags.Alarm
          /\ actions' = actions /\ on_since' = on_since
          /\ values' = apply_tick(active_anomaly, anomaly_until, faults, values,
                                  blank_actions, city_code, season_code, now,
                                  app.minutes_per_tick, rain_fc).values]_vars

\* a manual tick after an auto tick under a rain forecast: the environment step
\* got every flag OFF and the controller still stores RainProtection ON, with
\* the flags the auto tick published
Wit_C34_ManualAfterAuto ==
  /\ app.pc = "stepped"
  /\ ~app.loc.auto
  /\ ticks = 3
  /\ app.stepped.tick = 3
  /\ app.stepped.flags = blank_actions
  /\ app.computed.tick = 2
  /\ actions.RainProtection
  /\ app.latest_actions = actions

\* DatabaseManager.fetch_all after the insert_reading calls of app.db: ts is the
\* primary key of the readings table and the insert is INSERT OR REPLACE, so the
\* table holds, for each timestamp, the row of the last call made with it; the
\* rows come back by ascending ts
fetch_all ==
  LET log == app.db
      keys == {log[i].ts : i \in DOMAIN log}
      row(ts) == log[CHOOSE i \in DOMAIN log :
                       /\ log[i].ts = ts
                       /\ \A j \in DOMAIN log : j > i => log[j].ts # ts]
      order == CHOOSE f \in [1..Cardinality(keys) -> keys] :
                 \A i, j \in 1..Cardinality(keys) : i < j => f[i] < f[j]
  IN [i \in 1..Cardinality(keys) |-> row(order[i])]

\* C35 as stated: once a tick has written its reading, fetch_all returns one row
\* for each tick made so far, in ascending timestamp order, in simulated-time
\* mode and in wall-clock mode alike
Cex_C35_OneRowPerTick ==
  app.pc \in {"persisted", "idle"} =>
    /\ Len(app.db) = ticks
    /\ Len(fetch_all) = ticks
    /\ \A i \in 1..ticks : \E r \in 1..Len(fetch_all) : fetch_all[r] = app.db[i]
    /\ \A r \in 1..Len(fetch_all) - 1 : fetch_all[r].ts < fetch_all[r + 1].ts

\* C33: while a tick runs, the temperature target is the plant's night
\* temperature iff the hour of the tick's timestamp is >= 20 or < 6 and its day
\* temperature otherwise; compute and apply_tick are given that same timestamp,
\* and the controller's and the environment's night tests agree with the target
\* selection on it
Thm_C33_DayNightAgreement ==
  app.pc # "idle" =>
    LET night == hour(now) >= 20 \/ hour(now) < 6
    IN /\ targets.temp_target =
            IF night THEN PlantTomato.temp_night ELSE PlantTomato.temp_day
       /\ is_night(now) = night
       /\ sim_is_night(now) = night
       /\ (app.pc = "decided" /\ app.loc.auto) => app.computed.now = now
       /\ app.pc \in {"stepped", "persisted"} =>
            /\ app.stepped.now = now
            /\ app.loc.auto => app.computed.now = now

\* the tick at 20:00 sharp, after a tick by day: night target, and the reading
\* written with that timestamp
Wit_C33_NightBegins ==
  /\ app.pc = "persisted"
  /\ app.loc.auto
  /\ now = 1200
  /\ ticks = 2
  /\ app.db[1].ts = 1185
  /\ targets.temp_target = PlantTomato.temp_night
  /\ app.latest_targets.temp_target = PlantTomato.temp_day

\* C31: a fault flag goes from false to true only in the environment part of a
\* tick, and only if the anomaly of that fault is active at the tick's time (now
\* <= anomaly_until) or the random-faults switch is on; set_anomaly and
\* clear_anomaly leave the fault flags as they are; and a flag that goes up while
\* the anomaly is of another kind (HEAT_WAVE, say) was set by the random injection
Thm_C31_FaultActivation ==
  [][LET code == [fan_fault |-> "FAN_FAULT", pump_fault |-> "PUMP_FAULT",
                  mister_fault |-> "MISTER_FAULT"]
     IN /\ \A f \in DOMAIN faults :
             (~faults[f] /\ faults'[f]) =>
               /\ app.pc = "decided"
               /\ calls' = "apply_tick"
               /\ \/ /\ active_anomaly = code[f]
                     /\ anomaly_until # None
                     /\ now <= anomaly_until[1]
                  \/ app.enable_random_faults
               /\ active_anomaly # code[f] => f \in app'.injected
        /\ calls' \in {"set_anomaly", "clear_anomaly"} => faults' = faults
        /\ \A f \in DOMAIN faults : faults[f] => faults'[f]]_vars

\* a tick under an active PUMP_FAULT anomaly has set pump_fault, and only that
\* flag, with the random-faults switch never used
Wit_C31_PumpFaultByAnomaly ==
  /\ program = "loop"
  /\ calls = "apply_tick"
  /\ active_anomaly = "PUMP_FAULT"
  /\ anomaly_until # None
  /\ now <= anomaly_until[1]
  /\ faults = [NoFaults EXCEPT !.pump_fault = TRUE]
  /\ app.injected = {}
  /\ ~app.enable_random_faults

\* C25 as stated: on every tick in auto mode the rain_forecast value given to
\* compute and to apply_tick is true iff the manual flag is set or a
\* RAIN_FORECAST anomaly is active at the tick's timestamp (now <= expires_at);
\* on the tick that finds the anomaly expired RainProtection is false and the
\* rain indicator is 0
Cex_C25_RainForecastAtTimestamp ==
  /\ (app.pc = "decided" /\ app.loc.auto) =>
       app.computed.rain =
         \/ app.rain_forecast
         \/ /\ active_anomaly = "RAIN_FORECAST"
            /\ anomaly_active(active_anomaly, anomaly_until, now)
  /\ (app.pc = "stepped" /\ app.loc.auto /\ auto_cleared /\ ~app.rain_forecast
        /\ anomaly_code = "RAIN_FORECAST") =>
       /\ app.stepped.rain = FALSE
       /\ ~app.loc.actions.RainProtection
       /\ values.rain = 0

\* C26 as stated: the timestamp passed to compute and the one passed to
\* apply_tick never decrease from one tick to the next, whatever the operator
\* does with the clock controls between the ticks
Cex_C26_MonotonicClock ==
  [][/\ (app'.computed.tick # app.computed.tick /\ app.computed.tick # NoTick) =>
          app'.computed.now >= app.computed.now
     /\ (app'.stepped.tick # app.stepped.tick /\ app.stepped.tick # NoTick) =>
          app'.stepped.now >= app.stepped.now]_vars

\* the stamps one UI refresh has found so far on the fields it has read
seen_stamps == {app.seen[f] : f \in {"targets", "actions", "notes"}} \ {Unread}

\* the tick callback and the UI refresh never interleave, and what one refresh
\* reads was all assigned together
snapshot_consistent ==
  /\ app.ui_pc # "idle" => app.pc = "idle"
  /\ app.ui_pc # "idle" =>
       {app.stamp[f] : f \in {"actions", "targets", "reasons", "notes"}}
         = {app.stamp.actions}
  /\ Cardinality(seen_stamps) <= 1

\* C20 as stated: the two callbacks never interleave and whatever a UI refresh
\* reads was produced by one and the same completed tick
Cex_C20_AlwaysFromATick ==
  /\ snapshot_consistent
  /\ \A n \in seen_stamps : n # NoTick

\* C20, amended: the two callbacks never interleave and whatever a UI refresh
\* reads was produced by one and the same completed tick, or is the constructor's
\* initial values when the refresh is the constructor's own call of _ui_loop,
\* which runs before the first tick
Thm_C20_SnapshotConsistency ==
  /\ snapshot_consistent
  /\ app.ui_pc # "idle" =>
       \A n \in seen_stamps :
         IF app.phase = "start_ui"
           THEN n = NoTick /\ ticks = 0
           ELSE n # NoTick /\ n = ticks /\ Len(app.db) = n

\* a UI refresh that ran between the second and the third tick and read all three
\* fields
Wit_C20_ReadSecondTick ==
  /\ app.ui_pc = "idle"
  /\ app.pc = "idle"
  /\ app.seen = [targets |-> 2, actions |-> 2, notes |-> 2]
  /\ ticks = 2

---------------------------------------------------------------------------
\* Properties of the environment model

\* C1: after every environment step, from every starting state, with every
\* combination of actuator flags, tick length and anomaly, every field of the
\* returned state is inside its documented range: temperature in [-20, 60],
\* humidity in [0, 100], light in [0, 2500], soil in [0, 100], rain in [0, 20]
Thm_C1_ClampInvariant ==
  calls \in {"apply_tick", "step"} =>
    /\ values.temp >= -2000 /\ values.temp <= 6000
    /\ values.humidity >= 0 /\ values.humidity <= 10000
    /\ values.light >= 0 /\ values.light <= 250000
    /\ values.soil >= 0 /\ values.soil <= 10000
    /\ values.rain >= 0 /\ values.rain <= 2000

\* a second step in a heat wave with Heating ON leaves the temperature at the clamp
Wit_C1_HeatWaveAtClamp ==
  /\ calls = "apply_tick"
  /\ ticks >= 2
  /\ <<"anomaly", "Heat wave">> \in notes
  /\ actions.Heating
  /\ values.temp = 6000

\* C5: every environment step whose timestamp is in the night window returns a
\* temperature >= MIN_NIGHT_TEMP_C, for every starting temperature, every
\* combination of actuator flags and every anomaly
Cex_C5_NightFloor ==
  (calls = "apply_tick" /\ is_night(now)) => values.temp >= MIN_NIGHT_TEMP_C

\* C8: an anomaly set at t0 with duration d is active on the steps with
\* now <= t0 + d (the step at exactly t0 + d included: the anomaly is kept and its
\* modifier is applied and noted) and is cleared by the first step with
\* now > t0 + d: on that step active_anomaly becomes NORMAL, the expiry is unset,
\* no anomaly is noted, and the step returns what it returns with no anomaly
Thm_C8_AnomalyExpiry ==
  [][(calls' = "apply_tick" /\ active_anomaly # "NORMAL" /\ anomaly_until # None) =>
       IF now' <= anomaly_until[1]
         THEN /\ active_anomaly' = active_anomaly
              /\ anomaly_until' = anomaly_until
              /\ <<"anomaly", anomaly_note(active_anomaly)>> \in notes'
              /\ ~auto_cleared'
         ELSE /\ active_anomaly' = "NORMAL"
              /\ anomaly_until' = None
              /\ \A n \in notes' : n[1] # "anomaly"
              /\ values' = apply_tick("NORMAL", None, faults, values, actions',
                                      city_code, season_code, now', now' - now,
                                      rain_forecast').values
              /\ faults' = faults]_vars

\* HEAT_WAVE set at the start for 3 hours, and the step at 3 h 01 min clears it
Wit_C8_ExpiredAtThreeHoursOne ==
  /\ calls = "apply_tick"
  /\ auto_cleared
  /\ anomaly_code = "HEAT_WAVE"
  /\ now = started + 60 * DURATION_HOURS + 1
  /\ active_anomaly = "NORMAL"

\* C9: a fault flag set by a fault-type anomaly is false again once that anomaly
\* has been cleared, by clear_anomaly or by expiry (these runs set faults by
\* anomaly only)
Cex_C9_FaultsClearedWithAnomaly ==
  active_anomaly = "NORMAL" => faults = NoFaults

---------------------------------------------------------------------------
\* Properties of the controller

\* the time a flag that is ON has been ON for, in seconds, at a call at time t
OnFor(k, t) == (t - changed_at[k][1]) * 60

\* C2: a controller call with rain_forecast = true returns Windows = false and
\* RainProtection = true (compute and apply_rules alike)
Thm_C2_RainOverride ==
  (calls # "none" /\ rain_forecast) =>
    (~actions.Windows /\ actions.RainProtection)

\* C2 witness: compute closed Windows on a rain forecast although Windows was
\* ON before the call and its minimum ON time had not elapsed
Wit_C2_ClosedInsideMinOn ==
  /\ calls = "compute"
  /\ rain_forecast
  /\ prev_actions.Windows
  /\ prev_on_since.Windows # None
  /\ (now - prev_on_since.Windows[1]) * 60 < MIN_ON_WIN_SEC
  /\ ~actions.Windows
  /\ actions.RainProtection

\* C3: a strict actuator that is ON stays ON on every call made before its
\* minimum ON time has elapsed (Windows: on calls without a rain forecast)
Thm_C3_MinOnHold ==
  [][\A k \in Strict :
       (/\ calls' = "compute"
        /\ actions[k]
        /\ changed_at[k] # None
        /\ OnFor(k, now') < MinOn(k)
        /\ (k = "Windows" => ~rain_forecast'))
       => actions'[k]]_vars

\* C3 witness: at night Ventilation is still ON, held by its timer, on a call
\* where temperature and humidity are both back under the release thresholds
Wit_C3_HeldAtNight ==
  /\ calls = "compute"
  /\ is_night(now)
  /\ actions.Ventilation
  /\ changed_at.Ventilation # None
  /\ changed_at.Ventilation[1] < now
  /\ values.temp <= targets.temp_target + TEMP_BAND_C - TEMP_HYST_C
  /\ values.humidity <= targets.hum_target + HUM_BAND_PCT - HUM_HYST_PCT

\* C4 as claimed: two transitions of a strict flag are never closer together
\* than the minimum ON time
Cex_C4_NoTwoTransitionsClose ==
  [][\A k \in Strict :
       (actions'[k] # actions[k] /\ changed_at[k] # None)
       => OnFor(k, now') >= MinOn(k)]_vars

\* C4 amended: two transitions of a strict flag are never closer together than
\* the minimum ON time, except that Ventilation and Windows may turn ON again
\* at any time after the night policy has closed them
Thm_C4_NoChatter ==
  [][\A k \in Strict :
       (actions'[k] # actions[k] /\ changed_at[k] # None)
       => \/ OnFor(k, now') >= MinOn(k)
          \/ /\ k \in {"Ventilation", "Windows"}
             /\ actions'[k]
             /\ is_night(changed_at[k][1])]_vars

\* C4 witness: Ventilation, ON earlier, was switched OFF by this call
Wit_C4_SecondTransition ==
  /\ calls = "compute"
  /\ group = "osc_climate"
  /\ ~actions.Ventilation
  /\ prev_actions.Ventilation
  /\ changed_at.Ventilation = <<now>>

\* C6 as claimed: for every non-alarm actuator the timer is set iff the flag is ON
Cex_C6_TimerIffOnAllActuators ==
  calls = "compute" =>
    \A k \in Keys \ {"Alarm"} : (on_since[k] # None) <=> actions[k]

\* C6 amended: for the five strict actuators the timer is set iff the flag is
\* ON, set to the call's timestamp on OFF -> ON, unchanged while ON, cleared on
\* ON -> OFF; Heating, RainProtection and Alarm never get a timer
Thm_C6_ActivationTimer ==
  [][calls' = "compute" =>
       /\ \A k \in Strict :
            /\ (on_since'[k] # None) <=> actions'[k]
            /\ (~actions[k] /\ actions'[k]) => on_since'[k] = <<now'>>
            /\ (actions[k] /\ actions'[k]) => on_since'[k] = on_since[k]
            /\ (actions[k] /\ ~actions'[k]) => on_since'[k] = None
       /\ \A k \in Keys \ Strict : on_since'[k] = None]_vars

\* C6 witness: Misting stayed ON over a call and kept its earlier timestamp
\* while Heating is ON
Wit_C6_TimerKept ==
  /\ calls = "compute"
  /\ actions.Misting
  /\ prev_actions.Misting
  /\ on_since.Misting # None
  /\ on_since.Misting[1] < now
  /\ actions.Heating

\* C7: Heating is ON on a call with temperature below target - band, stays ON
\* while temperature is below target + hysteresis, and is OFF on a call with
\* temperature at or above target + hysteresis
Thm_C7_Heating ==
  [][calls' = "compute" =>
       /\ values'.temp < targets'.temp_target - TEMP_BAND_C => actions'.Heating
       /\ values'.temp >= targets'.temp_target + TEMP_HYST_C => ~actions'.Heating
       /\ (actions.Heating /\ targets' = targets
             /\ values'.temp < targets'.temp_target + TEMP_HYST_C)
            => actions'.Heating]_vars

\* C7 witness: Heating, ON before, was switched OFF by a call with the
\* temperature exactly at target + hysteresis
Wit_C7_ReleasedAtThreshold ==
  /\ calls = "compute"
  /\ prev_actions.Heating
  /\ ~actions.Heating
  /\ values.temp = targets.temp_target + TEMP_HYST_C

\* some rule of compute fired on the arguments of the last call
RuleFired ==
  \/ values.temp < targets.temp_target - TEMP_BAND_C
  \/ values.temp > targets.temp_target + TEMP_BAND_C
  \/ values.humidity > targets.hum_target + HUM_BAND_PCT
  \/ values.humidity < targets.hum_target - HUM_BAND_PCT
  \/ values.soil < targets.soil_min
  \/ ((~is_night(now) \/ ALLOW_LIGHT_AT_NIGHT) /\ values.light < targets.light_min)
  \/ rain_forecast

AnyFault == faults.fan_fault \/ faults.pump_fault \/ faults.mister_fault

\* C10: Alarm is true iff the returned reasons list is non-empty, and the list
\* is non-empty iff a rule fired or a fault is set
Thm_C10_Alarm ==
  calls = "compute" =>
    /\ actions.Alarm <=> (reasons # << >>)
    /\ (reasons # << >>) <=> (RuleFired \/ AnyFault)

\* C10 witness: the only reason is a fault hint and Alarm is true
Wit_C10_FaultOnly ==
  /\ calls = "compute"
  /\ reasons = <<"FAULT: pump_fault">>
  /\ ~RuleFired
  /\ actions.Alarm

=============================================================================
